---- MODULE Spec2Model ----
(***************************************************************************)
(* Streaming progress classifier of sudi-ralphy, src/cli/src/ui/spinner.ts *)
(*                                                                         *)
(* Strings are sequences of one-character strings, so that includes,       *)
(* toLowerCase, trim, split and truncate are computed character by         *)
(* character.  JavaScript values are tagged records, so that truthiness,   *)
(* property access and the TypeErrors of the dynamic code are explicit.    *)
(***************************************************************************)
EXTENDS Integers, Sequences, FiniteSets, TLC

(***************************************************************************)
(* Bounds of the model                                                     *)
(***************************************************************************)
MaxRuns == 2
MaxLines == 2
MaxStream == 3
MaxSeq == 2

(***************************************************************************)
(* String primitives of the JavaScript runtime                             *)
(***************************************************************************)
UpperChars == <<"A","B","C","D","E","F","G","H","I","J","K","L","M",
                "N","O","P","Q","R","S","T","U","V","W","X","Y","Z">>
LowerChars == <<"a","b","c","d","e","f","g","h","i","j","k","l","m",
                "n","o","p","q","r","s","t","u","v","w","x","y","z">>

LowerChar(c) ==
  IF \E i \in DOMAIN UpperChars : UpperChars[i] = c
    THEN LowerChars[CHOOSE i \in DOMAIN UpperChars : UpperChars[i] = c]
    ELSE c

toLowerCase(s) == [i \in 1..Len(s) |-> LowerChar(s[i])]

includes(s, sub) ==
  \E i \in 0..(Len(s) - Len(sub)) : SubSeq(s, i + 1, i + Len(sub)) = sub

startsWith(s, p) == Len(s) >= Len(p) /\ SubSeq(s, 1, Len(p)) = p

IsSpace(c) == c \in {" ", "\t", "\n", "\r"}

RECURSIVE trimStart(_)
trimStart(s) ==
  IF s # <<>> /\ IsSpace(Head(s)) THEN trimStart(Tail(s)) ELSE s

RECURSIVE trimEnd(_)
trimEnd(s) ==
  IF s # <<>> /\ IsSpace(s[Len(s)]) THEN trimEnd(SubSeq(s, 1, Len(s) - 1)) ELSE s

trim(s) == trimEnd(trimStart(s))

\* str.slice(0, n) for 0 <= n
slice0(s, n) == SubSeq(s, 1, IF n < Len(s) THEN n ELSE Len(s))

\* str.split("\n"): the pieces between the newlines, one more than there are
\* newlines
split(s) ==
  LET newlines == { i \in 1..Len(s) : s[i] = "\n" }
      n == Cardinality(newlines)
      \* the position of the k-th newline; 0 before the first piece and
      \* Len(s) + 1 after the last
      pos(k) == IF k = 0 THEN 0
                ELSE IF k = n + 1 THEN Len(s) + 1
                ELSE CHOOSE i \in newlines : Cardinality({ j \in newlines : j < i }) = k - 1
  IN [k \in 1..(n + 1) |-> SubSeq(s, pos(k - 1) + 1, pos(k) - 1)]

\* decimal digits of a natural number, as String(n) prints it
DigitChars == <<"0","1","2","3","4","5","6","7","8","9">>

RECURSIVE NatToString(_)
NatToString(n) ==
  IF n < 10 THEN <<DigitChars[n + 1]>>
  ELSE Append(NatToString(n \div 10), DigitChars[(n % 10) + 1])

(***************************************************************************)
(* JavaScript values                                                       *)
(***************************************************************************)
Undef == [t |-> "undefined"]
Null == [t |-> "null"]
Num(n) == [t |-> "number", n |-> n]
Str(s) == [t |-> "string", s |-> s]
Arr(a) == [t |-> "array", a |-> a]
Obj(f) == [t |-> "object", f |-> f]
EmptyObj == Obj(<<>>)

IsNullish(v) == v.t \in {"undefined", "null"}

Truthy(v) ==
  CASE v.t = "undefined" -> FALSE
    [] v.t = "null" -> FALSE
    [] v.t = "number" -> v.n # 0
    [] v.t = "string" -> v.s # <<>>
    [] OTHER -> TRUE

\* o.k for a non-nullish o (o.k on undefined or null is a TypeError)
Get(o, k) == IF o.t = "object" /\ k \in DOMAIN o.f THEN o.f[k] ELSE Undef

\* a || b
Or(a, b) == IF Truthy(a) THEN a ELSE b

IsStr(v) == v.t = "string"

\* v === "literal"
StrictEq(v, s) == v.t = "string" /\ v.s = s

\* String(v)
ObjectObject == <<"[","o","b","j","e","c","t"," ","O","b","j","e","c","t","]">>
String(v) ==
  CASE v.t = "string" -> v.s
    [] v.t = "number" -> NatToString(v.n)
    [] v.t = "undefined" -> <<"u","n","d","e","f","i","n","e","d">>
    [] v.t = "null" -> <<"n","u","l","l">>
    [] OTHER -> ObjectObject

(***************************************************************************)
(* Optional fields of StepInfo: absent is <<>>, present is <<value>>       *)
(***************************************************************************)
None == <<>>
Some(v) == <<v>>

(***************************************************************************)
(* String literals of the classifiers                                      *)
(***************************************************************************)
lit ==
  [ tool_call |-> <<"t","o","o","l","_","c","a","l","l">>,
    step_start |-> <<"s","t","e","p","_","s","t","a","r","t">>,
    todowrite |-> <<"t","o","d","o","w","r","i","t","e">>,
    mcp_todowrite |-> <<"m","c","p","_","t","o","d","o","w","r","i","t","e">>,
    read |-> <<"r","e","a","d">>,
    glob |-> <<"g","l","o","b">>,
    grep |-> <<"g","r","e","p">>,
    write |-> <<"w","r","i","t","e">>,
    edit |-> <<"e","d","i","t">>,
    bash |-> <<"b","a","s","h">>,
    git_commit |-> <<"g","i","t"," ","c","o","m","m","i","t">>,
    git_add |-> <<"g","i","t"," ","a","d","d">>,
    lint |-> <<"l","i","n","t">>,
    eslint |-> <<"e","s","l","i","n","t">>,
    biome |-> <<"b","i","o","m","e">>,
    prettier |-> <<"p","r","e","t","t","i","e","r">>,
    test |-> <<"t","e","s","t">>,
    vitest |-> <<"v","i","t","e","s","t">>,
    jest |-> <<"j","e","s","t">>,
    bun_test |-> <<"b","u","n"," ","t","e","s","t">>,
    npm_test |-> <<"n","p","m"," ","t","e","s","t">>,
    pytest |-> <<"p","y","t","e","s","t">>,
    go_test |-> <<"g","o"," ","t","e","s","t">>,
    dot_test |-> <<".","t","e","s","t",".">>,
    dot_spec |-> <<".","s","p","e","c",".">>,
    tests_dir |-> <<"_","_","t","e","s","t","s","_","_">>,
    test_go |-> <<"_","t","e","s","t",".","g","o">>,
    assistant |-> <<"a","s","s","i","s","t","a","n","t">>,
    tool_use |-> <<"t","o","o","l","_","u","s","e">>,
    pending |-> <<"p","e","n","d","i","n","g">>,
    Running |-> <<"R","u","n","n","i","n","g",":"," ">>,
    ellipsis |-> <<".",".",".">>,
    brace |-> <<"{">> ]

(***************************************************************************)
(* Display helpers                                                         *)
(***************************************************************************)
\* the string passed through whatever its length
truncateNone(str, maxLen) == str

\* truncate(str, maxLen), module level and OpenCodeEngine.truncate (same body)
truncate(str, maxLen) ==
  IF Len(str) <= maxLen THEN str ELSE slice0(str, maxLen - 3) \o lit.ellipsis

formatFilePath(filePath) == truncate(filePath, 60)

formatCommand(command) == lit.Running \o truncate(command, 50)

truncatePath(filePath) == truncate(filePath, 60)

isTestFile(filePath) ==
  LET lower == toLowerCase(filePath)
  IN includes(lower, lit.dot_test) \/ includes(lower, lit.dot_spec)
       \/ includes(lower, lit.tests_dir) \/ includes(lower, lit.test_go)

OpenCodeEngine_isTestFile(filePath) ==
  LET lower == toLowerCase(filePath)
  IN includes(lower, lit.dot_test) \/ includes(lower, lit.dot_spec)
       \/ includes(lower, lit.tests_dir)

(***************************************************************************)
(* StepInfo and the outcome of a function body inside try/catch            *)
(***************************************************************************)
CanonicalSteps ==
  {"Thinking", "Reading code", "Implementing", "Writing tests", "Running command",
   "Linting", "Testing", "Committing", "Staging", "Planning"}

StepInfo(step, toolOutput, diff, todos) ==
  [step |-> step, toolOutput |-> toolOutput, diff |-> diff, todos |-> todos]

\* a TypeError / SyntaxError raised inside the try block
Throw == [k |-> "throw"]
\* return value (None is null) together with the engine's todo list on return
Return(ev, todos) == [k |-> "return", ev |-> ev, todos |-> todos]
\* control leaves a block without returning
Fall == [k |-> "fall"]

(***************************************************************************)
(* Output lines.  text is the line as delivered; json is what JSON.parse   *)
(* makes of the trimmed line, SyntaxError when it throws.                  *)
(***************************************************************************)
SyntaxError == [t |-> "SyntaxError"]

JSONparse(line) == line.json

(***************************************************************************)
(* OpenCodeEngine: diff preview                                            *)
(***************************************************************************)
\* the last maxLines lines kept instead of the first
previewLinesLast(content, maxLines) ==
  LET all == split(content)
      ls == SubSeq(all, (IF Len(all) > maxLines THEN Len(all) - maxLines ELSE 0) + 1, Len(all))
  IN [i \in 1..Len(ls) |-> truncate(ls[i], 70)]

\* content.split("\n").slice(0, maxLines).map((l) => this.truncate(l, 70))
previewLines(content, maxLines) ==
  LET ls == slice0(split(content), maxLines)
  IN [i \in 1..Len(ls) |-> truncate(ls[i], 70)]

\* oldContent and newContent are JavaScript values: split is a TypeError on a
\* truthy value that is not a string
createDiff(filePath, oldContent, newContent, maxLines) ==
  IF ~Truthy(newContent) /\ ~Truthy(oldContent) THEN Return(None, <<>>)
  ELSE IF (Truthy(oldContent) /\ ~IsStr(oldContent))
            \/ (Truthy(newContent) /\ ~IsStr(newContent)) THEN Throw
  ELSE Return(Some([filePath |-> filePath,
                    oldLines |-> IF Truthy(oldContent)
                                   THEN Some(previewLines(oldContent.s, maxLines))
                                   ELSE None,
                    newLines |-> IF Truthy(newContent)
                                   THEN Some(previewLines(newContent.s, maxLines))
                                   ELSE None]), <<>>)

(***************************************************************************)
(* OpenCodeEngine: todo tracker                                            *)
(***************************************************************************)
\* input.todos && Array.isArray(input.todos)
isTodoList(todos) == Truthy(todos) /\ todos.t = "array"

\* the callback of input.todos.map; t.id on a null entry is a TypeError
mapTodo(t) ==
  [id |-> String(Or(Get(t, "id"), Str(<<>>))),
   content |-> String(Or(Get(t, "content"), Str(<<>>))),
   status |-> Or(Get(t, "status"), Str(lit.pending))]

\* the mapped items merged into the tracked list instead of replacing it
newTodosMerge(currentTodos, items) ==
  currentTodos \o [i \in 1..Len(items) |-> mapTodo(items[i])]

\* the value assigned to this.currentTodos by a todo write
newTodos(currentTodos, items) == [i \in 1..Len(items) |-> mapTodo(items[i])]

\* the tracked list never attached
todosFieldNever(currentTodos) == None

\* the tracked list attached even when it is empty
todosFieldAlways(currentTodos) == Some(currentTodos)

\* todos: this.currentTodos.length > 0 ? this.currentTodos : undefined
todosField(currentTodos) ==
  IF Len(currentTodos) > 0 THEN Some(currentTodos) ELSE None

\* a todos value that is not a list taken for the empty list
todoWriteLenient(todos, currentTodos) ==
  IF ~isTodoList(todos)
    THEN Return(Some(StepInfo("Planning", None, None, Some(<<>>))), <<>>)
  ELSE IF \E i \in 1..Len(todos.a) : IsNullish(todos.a[i]) THEN Throw
  ELSE LET assigned == newTodos(currentTodos, todos.a)
       IN Return(Some(StepInfo("Planning", None, None, Some(assigned))), assigned)

\* if (input.todos && Array.isArray(input.todos)) { ... return Planning }
todoWrite(todos, currentTodos) ==
  IF ~isTodoList(todos) THEN Fall
  ELSE IF \E i \in 1..Len(todos.a) : IsNullish(todos.a[i]) THEN Throw
  ELSE LET assigned == newTodos(currentTodos, todos.a)
       IN Return(Some(StepInfo("Planning", None, None, Some(assigned))), assigned)

(***************************************************************************)
(* OpenCodeEngine.detectStepFromLine                                       *)
(***************************************************************************)
\* toolOutput: command ? `Running: ${this.truncate(command, 50)}` : undefined
runningOutput(command) ==
  IF command # <<>> THEN Some(lit.Running \o truncate(command, 50)) ELSE None

\* if (toolName === "bash") { ... }
bashStep(command, currentTodos) ==
  LET todos == todosField(currentTodos)
  IN IF includes(command, lit.git_commit)
       THEN StepInfo("Committing", None, None, todos)
     ELSE IF includes(command, lit.git_add)
       THEN StepInfo("Staging", None, None, todos)
     ELSE IF includes(command, lit.lint) \/ includes(command, lit.eslint)
               \/ includes(command, lit.biome)
       THEN StepInfo("Linting", runningOutput(command), None, todos)
     ELSE IF includes(command, lit.test) \/ includes(command, lit.vitest)
               \/ includes(command, lit.jest)
       THEN StepInfo("Testing", runningOutput(command), None, todos)
     ELSE StepInfo("Running command", runningOutput(command), None, todos)

\* the block guarded by parsed.type === "tool_call" && parsed.part?.name,
\* entered with a truthy name
toolCall(name, part, currentTodos) ==
  IF ~IsStr(name) THEN Throw
  ELSE
  LET toolName == toLowerCase(name.s)
      input == Or(Get(part, "input"), EmptyObj)
      todos == Get(input, "todos")
  IN
  IF toolName \in {lit.todowrite, lit.mcp_todowrite}
       /\ todoWrite(todos, currentTodos).k # "fall"
    THEN todoWrite(todos, currentTodos)
  ELSE
  LET rawFilePath == Or(Or(Get(input, "file_path"), Get(input, "path")), Str(<<>>))
      rawCommand == Or(Get(input, "command"), Str(<<>>))
      oldContent == Or(Or(Get(input, "old_string"), Get(input, "oldString")), Str(<<>>))
      newContent == Or(Or(Or(Get(input, "content"), Get(input, "new_string")),
                          Get(input, "newString")), Str(<<>>))
  IN
  IF ~IsStr(rawFilePath) \/ ~IsStr(rawCommand) THEN Throw
  ELSE
  LET filePath == toLowerCase(rawFilePath.s)
      command == toLowerCase(rawCommand.s)
  IN
  IF toolName \in {lit.read, lit.glob, lit.grep}
    THEN Return(Some(StepInfo("Reading code",
                              IF filePath # <<>> THEN Some(truncatePath(filePath)) ELSE None,
                              None, todosField(currentTodos))), currentTodos)
  ELSE IF toolName \in {lit.write, lit.edit}
    THEN LET diff == createDiff(rawFilePath.s, oldContent, newContent, 4)
         IN IF diff.k = "throw" THEN Throw
            ELSE Return(Some(StepInfo(IF OpenCodeEngine_isTestFile(filePath)
                                        THEN "Writing tests" ELSE "Implementing",
                                      None, diff.ev, todosField(currentTodos))),
                        currentTodos)
  ELSE IF toolName = lit.bash
    THEN Return(Some(bashStep(command, currentTodos)), currentTodos)
  ELSE Fall

\* the body of the try block
detectStepFromLine_try(line, currentTodos) ==
  LET parsed == JSONparse(line)
  IN IF parsed = SyntaxError THEN Throw
     ELSE
     LET part == Get(parsed, "part")
         name == IF IsNullish(part) THEN Undef ELSE Get(part, "name")
         block == IF StrictEq(Get(parsed, "type"), lit.tool_call) /\ Truthy(name)
                    THEN toolCall(name, part, currentTodos)
                    ELSE Fall
     IN IF block.k # "fall" THEN block
        ELSE IF StrictEq(Get(parsed, "type"), lit.step_start)
          THEN Return(Some(StepInfo("Thinking", None, None, todosField(currentTodos))),
                      currentTodos)
        ELSE Return(None, currentTodos)

\* the catch block missing: the error leaves the classifier
catchRethrow(outcome, currentTodos) == outcome

\* catch { return null; }: nothing was assigned before the throw
catchReturnNull(outcome, currentTodos) ==
  IF outcome.k = "throw" THEN Return(None, currentTodos) ELSE outcome

detectStepFromLine(line, currentTodos) ==
  IF ~startsWith(trim(line.text), lit.brace) THEN Return(None, currentTodos)
  ELSE catchReturnNull(detectStepFromLine_try(line, currentTodos), currentTodos)

(***************************************************************************)
(* detectStepFromOutput (stream-json and flat formats)                     *)
(***************************************************************************)
\* the loop over message.content from item i on; item.type on a null item,
\* and toLowerCase on a value that is not a string, are TypeErrors
RECURSIVE findToolUse(_, _)
findToolUse(content, i) ==
  IF i > Len(content) THEN Return(None, <<>>)
  ELSE
  LET item == content[i]
  IN IF IsNullish(item) THEN Throw
     ELSE IF StrictEq(Get(item, "type"), lit.tool_use) /\ Truthy(Get(item, "name"))
       THEN LET input == Or(Get(item, "input"), EmptyObj)
                filePath == Or(Or(Get(input, "file_path"), Get(input, "path")), Str(<<>>))
                command == Or(Get(input, "command"), Str(<<>>))
            IN IF ~IsStr(Get(item, "name")) \/ ~IsStr(filePath) \/ ~IsStr(command)
                 THEN Throw
                 ELSE Return(Some([toolName |-> toLowerCase(Get(item, "name").s),
                                   filePath |-> toLowerCase(filePath.s),
                                   command |-> toLowerCase(command.s)]), <<>>)
     ELSE findToolUse(content, i + 1)

\* the loop run from the last item to the first: the last tool_use wins
extractLastToolUse(parsed) ==
  LET message == Get(parsed, "message")
      content == Get(message, "content")
  IN IF ~StrictEq(Get(parsed, "type"), lit.assistant) THEN Return(None, <<>>)
     ELSE IF IsNullish(message) \/ ~Truthy(content) THEN Return(None, <<>>)
     ELSE IF content.t # "array" THEN Return(None, <<>>)
     ELSE findToolUse([i \in 1..Len(content.a) |-> content.a[Len(content.a) + 1 - i]], 1)

extractToolFromClaudeFormat(parsed) ==
  LET message == Get(parsed, "message")
  IN IF ~StrictEq(Get(parsed, "type"), lit.assistant) THEN Return(None, <<>>)
     ELSE IF IsNullish(message) \/ ~Truthy(Get(message, "content")) THEN Return(None, <<>>)
     ELSE IF Get(message, "content").t # "array" THEN Return(None, <<>>)
     ELSE findToolUse(Get(message, "content").a, 1)

\* v?.toLowerCase(): undefined for a nullish v, a TypeError for any other
\* value that is not a string
optLower(v) ==
  IF IsNullish(v) THEN Undef
  ELSE IF IsStr(v) THEN Str(toLowerCase(v.s))
  ELSE Throw

\* a?.toLowerCase() || b?.toLowerCase() || ... || "", left to right
RECURSIVE firstLower(_)
firstLower(vs) ==
  IF vs = <<>> THEN Str(<<>>)
  ELSE LET h == optLower(Head(vs))
       IN IF h = Throw THEN h
          ELSE IF Truthy(h) THEN h
          ELSE firstLower(Tail(vs))

\* the classification of the normalized tuple; rawCommand is
\* claudeTool?.command || parsed.command || ""
classify(toolName, filePath, command, description, rawCommand) ==
  LET isReadOperation == toolName \in {lit.read, lit.glob, lit.grep}
      isWriteOperation == toolName \in {lit.write, lit.edit}
      isBashOperation == toolName = lit.bash
      pathOutput == IF filePath # <<>> THEN Some(formatFilePath(filePath)) ELSE None
      \* formatCommand(rawCommand): slice on a value that is not a string throws
      echo(step) ==
        IF ~Truthy(rawCommand) THEN Return(Some(StepInfo(step, None, None, None)), <<>>)
        ELSE IF ~IsStr(rawCommand) THEN Throw
        ELSE Return(Some(StepInfo(step, Some(formatCommand(rawCommand.s)), None, None)),
                    <<>>)
      writeRules ==
        IF isWriteOperation /\ isTestFile(filePath)
          THEN Return(Some(StepInfo("Writing tests", pathOutput, None, None)), <<>>)
        ELSE IF isWriteOperation
          THEN Return(Some(StepInfo("Implementing", pathOutput, None, None)), <<>>)
        ELSE Return(None, <<>>)
  IN
  IF toolName = <<>> /\ command = <<>> THEN Return(None, <<>>)
  ELSE IF isReadOperation
    THEN Return(Some(StepInfo("Reading code", pathOutput, None, None)), <<>>)
  ELSE IF isBashOperation \/ command # <<>>
    THEN IF includes(command, lit.git_commit) \/ includes(description, lit.git_commit)
           THEN Return(Some(StepInfo("Committing", None, None, None)), <<>>)
         ELSE IF includes(command, lit.git_add) \/ includes(description, lit.git_add)
           THEN Return(Some(StepInfo("Staging", None, None, None)), <<>>)
         ELSE IF includes(command, lit.lint) \/ includes(command, lit.eslint)
                   \/ includes(command, lit.biome) \/ includes(command, lit.prettier)
           THEN echo("Linting")
         ELSE IF includes(command, lit.vitest) \/ includes(command, lit.jest)
                   \/ includes(command, lit.bun_test) \/ includes(command, lit.npm_test)
                   \/ includes(command, lit.pytest) \/ includes(command, lit.go_test)
           THEN echo("Testing")
         ELSE IF isBashOperation /\ command # <<>>
           THEN echo("Running command")
         ELSE writeRules
  ELSE writeRules

\* the body of the try block
detectStepFromOutput_try(line) ==
  LET parsed == JSONparse(line)
  IN IF parsed = SyntaxError THEN Throw
     ELSE
     LET claudeTool == extractToolFromClaudeFormat(parsed)
     IN IF claudeTool.k = "throw" THEN Throw
        ELSE IF claudeTool.ev # None
          THEN LET c == claudeTool.ev[1]
               IN classify(c.toolName, c.filePath, c.command, <<>>,
                           Or(Or(Str(c.command), Get(parsed, "command")), Str(<<>>)))
        ELSE
        LET toolName == firstLower(<<Get(parsed, "tool"), Get(parsed, "name"),
                                     Get(parsed, "tool_name")>>)
            command == firstLower(<<Get(parsed, "command")>>)
            filePath == Or(Or(Or(Get(parsed, "file_path"), Get(parsed, "filePath")),
                              Get(parsed, "path")), Str(<<>>))
            description == Or(Get(parsed, "description"), Str(<<>>))
        IN IF toolName = Throw \/ command = Throw
                \/ ~IsStr(filePath) \/ ~IsStr(description)
             THEN Throw
             ELSE classify(toolName.s, toLowerCase(filePath.s), command.s,
                           toLowerCase(description.s),
                           Or(Get(parsed, "command"), Str(<<>>)))

detectStepFromOutput(line) ==
  IF ~startsWith(trim(line.text), lit.brace) THEN Return(None, <<>>)
  ELSE catchReturnNull(detectStepFromOutput_try(line), <<>>)

(***************************************************************************)
(* Output lines fed to the classifiers                                     *)
(***************************************************************************)
\* a line that JSON.parse accepts; its text is abbreviated to {...}
JsonLine(parsed) == [text |-> <<"{",".",".",".","}">>, json |-> parsed]

\* a line that is not JSON (JSON.parse throws on it)
TextLine(text) == [text |-> text, json |-> SyntaxError]

\* {"type":"tool_call","part":{"name":name,"input":input}}
ToolCallLine(name, input) ==
  JsonLine(Obj([type |-> Str(<<"t","o","o","l","_","c","a","l","l">>), part |-> Obj([name |-> name, input |-> input])]))

\* {"type":"tool_call","part":{"name":name,"input":{"todos":todos}}}
TodoWriteLine(name, todos) == ToolCallLine(name, Obj([todos |-> todos]))

\* payloads of input.todos that are lists of objects
TodoLists ==
  { Arr(<< Obj([id |-> Str(<<"1">>), content |-> Str(<<"a">>), status |-> Str(<<"i","n","_","p","r","o","g","r","e","s","s">>)]) >>),
    Arr(<< Obj([content |-> Str(<<"b">>)]),
           Obj([id |-> Num(7), content |-> Str(<<"c">>), status |-> Str(<<"c","o","m","p","l","e","t","e","d">>)]) >>),
    Arr(<< Obj([id |-> Num(0), content |-> Null, status |-> Str(<<>>)]), Num(3) >>),
    Arr(<<>>) }

\* payloads of input.todos with a null entry
NullEntryLists ==
  { Arr(<< Null >>),
    Arr(<< Obj([id |-> Str(<<"1">>), content |-> Str(<<"a">>), status |-> Str(<<"p","e","n","d","i","n","g">>)]), Null >>) }

\* values of input.todos that are not lists
NonLists == { Undef, Str(<<"a","b","c">>), Num(5), Obj([id |-> Str(<<"1">>)]) }

TodoWriteLines ==
  { TodoWriteLine(Str(<<"t","o","d","o","w","r","i","t","e">>), p) : p \in TodoLists \cup NullEntryLists \cup NonLists }
    \cup { TodoWriteLine(Str(<<"m","c","p","_","t","o","d","o","w","r","i","t","e">>), Arr(<<>>)),
           TodoWriteLine(Str(<<"T","o","d","o","W","r","i","t","e">>), Arr(<< Obj([content |-> Str(<<"b">>)]) >>)) }

\* bash commands: lint and test markers, alone and combined
Commands ==
  { Str(<<"g","i","t"," ","c","o","m","m","i","t"," ","-","m"," ","\"","l","i","n","t"," ","t","e","s","t","\"">>), Str(<<"g","i","t"," ","a","d","d"," ","."," ","&","&"," ","n","p","m"," ","t","e","s","t">>),
    Str(<<"e","s","l","i","n","t"," ","."," ","&","&"," ","j","e","s","t">>), Str(<<"n","p","m"," ","r","u","n"," ","l","i","n","t"," ","&","&"," ","n","p","m"," ","t","e","s","t">>), Str(<<"b","i","o","m","e"," ","c","h","e","c","k"," ","&","&"," ","v","i","t","e","s","t">>),
    Str(<<"p","r","e","t","t","i","e","r"," ","-","-","c","h","e","c","k"," ","."," ","&","&"," ","n","p","m"," ","t","e","s","t">>), Str(<<"p","r","e","t","t","i","e","r"," ","-","-","w","r","i","t","e"," ",".">>),
    Str(<<"E","S","L","i","n","t"," ","s","r","c"," ","&","&"," ","P","y","T","e","s","t">>), Str(<<"n","p","m"," ","t","e","s","t">>), Str(<<"g","o"," ","t","e","s","t"," ",".","/",".",".",".">>), Str(<<"b","u","n"," ","t","e","s","t">>),
    Str(<<"n","p","m"," ","r","u","n"," ","l","a","t","e","s","t">>), Str(<<"l","s"," ","-","l","a">>), Str(<<>>), Num(5), Undef }

\* the commands given to the engine
EngineCommands ==
  { Str(<<"g","i","t"," ","c","o","m","m","i","t"," ","-","m"," ","\"","l","i","n","t"," ","t","e","s","t","\"">>), Str(<<"g","i","t"," ","a","d","d"," ","."," ","&","&"," ","n","p","m"," ","t","e","s","t">>),
    Str(<<"e","s","l","i","n","t"," ","."," ","&","&"," ","j","e","s","t">>), Str(<<"n","p","m"," ","r","u","n"," ","l","i","n","t"," ","&","&"," ","n","p","m"," ","t","e","s","t">>), Str(<<"b","i","o","m","e"," ","c","h","e","c","k"," ","&","&"," ","v","i","t","e","s","t">>),
    Str(<<"p","r","e","t","t","i","e","r"," ","-","-","c","h","e","c","k"," ","."," ","&","&"," ","n","p","m"," ","t","e","s","t">>), Str(<<"E","S","L","i","n","t"," ","s","r","c"," ","&","&"," ","P","y","T","e","s","t">>), Str(<<"n","p","m"," ","t","e","s","t">>),
    Str(<<"n","p","m"," ","r","u","n"," ","l","a","t","e","s","t">>), Str(<<"l","s"," ","-","l","a">>), Str(<<>>), Num(5) }

BashLines == { ToolCallLine(Str(<<"b","a","s","h">>), Obj([command |-> c])) : c \in EngineCommands }

FileLines ==
  { ToolCallLine(Str(<<"r","e","a","d">>), Obj([file_path |-> Str(<<"/","a","/","b","/","F","o","o",".","t","s">>)])),
    ToolCallLine(Str(<<"G","l","o","b">>), Obj([path |-> Str(<<"s","r","c">>)])),
    ToolCallLine(Str(<<"g","r","e","p">>), EmptyObj),
    ToolCallLine(Str(<<"r","e","a","d">>), Obj([file_path |-> Num(5)])),
    ToolCallLine(Str(<<"w","r","i","t","e">>), Obj([path |-> Str(<<"x",".","t","e","s","t",".","t","s">>), content |-> Str(<<"a","\n","b">>)])),
    ToolCallLine(Str(<<"w","r","i","t","e">>), Obj([file_path |-> Str(<<"p","k","g","/","f","o","o","_","t","e","s","t",".","g","o">>), content |-> Str(<<"x">>)])),
    ToolCallLine(Str(<<"e","d","i","t">>), Obj([file_path |-> Str(<<"s","r","c","/","A","p","p",".","t","s">>), old_string |-> Str(<<"a">>),
                                 new_string |-> Str(<<"b">>)])),
    ToolCallLine(Str(<<"E","d","i","t">>), Obj([file_path |-> Str(<<"s","r","c","/","_","_","t","e","s","t","s","_","_","/","a",".","t","s">>)])),
    ToolCallLine(Str(<<"w","r","i","t","e">>), Obj([path |-> Str(<<"a",".","t","s">>), content |-> Num(5)])) }

\* lines with missing fields or fields of unexpected types, and lines that are
\* not JSON
OddLines ==
  { JsonLine(Obj([type |-> Str(<<"s","t","e","p","_","s","t","a","r","t">>)])),
    JsonLine(Obj([type |-> Str(<<"t","e","x","t">>), part |-> Obj([text |-> Str(<<"h","i">>)])])),
    JsonLine(Obj([type |-> Str(<<"t","o","o","l","_","c","a","l","l">>)])),
    JsonLine(Obj([type |-> Str(<<"t","o","o","l","_","c","a","l","l">>), part |-> Null])),
    JsonLine(EmptyObj),
    ToolCallLine(Num(5), EmptyObj),
    ToolCallLine(Str(<<>>), EmptyObj),
    ToolCallLine(Str(<<"w","e","b","f","e","t","c","h">>), Obj([command |-> Str(<<"n","p","m"," ","t","e","s","t">>)])),
    ToolCallLine(Str(<<"b","a","s","h">>), Str(<<"n","p","m"," ","t","e","s","t">>)),
    [text |-> <<" "," ","{",".",".",".","}"," "," ">>, json |-> Obj([type |-> Str(<<"s","t","e","p","_","s","t","a","r","t">>)])],
    TextLine(<<"{","\"","t","y","p","e","\"",":"," ","o","o","p","s">>),
    TextLine(<<"h","e","l","l","o">>),
    TextLine(<<>>) }

\* the lines given to OpenCodeEngine.detectStepFromLine
EngineLines == TodoWriteLines \cup BashLines \cup FileLines \cup OddLines


\* {"type":"assistant","message":{"content":content}}
AssistantLine(content) ==
  JsonLine(Obj([type |-> Str(<<"a","s","s","i","s","t","a","n","t">>), message |-> Obj([content |-> Arr(content)])]))

\* {"type":"tool_use","name":name,"input":input}
ToolUse(name, input) == Obj([type |-> Str(<<"t","o","o","l","_","u","s","e">>), name |-> name, input |-> input])

ClaudeLines ==
  { AssistantLine(<< ToolUse(Str(<<"B","a","s","h">>), Obj([command |-> c])) >>) : c \in Commands }
    \cup
  { AssistantLine(<< Obj([type |-> Str(<<"t","e","x","t">>), text |-> Str(<<"o","k">>)]),
                     ToolUse(Str(<<"R","e","a","d">>), Obj([file_path |-> Str(<<"/","a","/","b","/","F","o","o",".","t","s">>)])),
                     ToolUse(Str(<<"B","a","s","h">>), Obj([command |-> Str(<<"n","p","m"," ","t","e","s","t">>)])) >>),
    AssistantLine(<< ToolUse(Str(<<"W","r","i","t","e">>), Obj([path |-> Str(<<"x",".","t","e","s","t",".","t","s">>)])) >>),
    AssistantLine(<< ToolUse(Str(<<"E","d","i","t">>), Obj([file_path |-> Str(<<"s","r","c","/","A","p","p",".","t","s">>)])) >>),
    AssistantLine(<< ToolUse(Str(<<"W","r","i","t","e">>), Obj([file_path |-> Str(<<"p","k","g","/","f","o","o","_","t","e","s","t",".","g","o">>)])) >>),
    AssistantLine(<< ToolUse(Num(5), EmptyObj) >>),
    AssistantLine(<< Null, ToolUse(Str(<<"R","e","a","d">>), EmptyObj) >>),
    AssistantLine(<< Str(<<"t","e","x","t">>), ToolUse(Str(<<"G","r","e","p">>), Null) >>),
    AssistantLine(<< ToolUse(Str(<<"R","e","a","d">>), Obj([file_path |-> Num(5)])) >>),
    AssistantLine(<<>>),
    JsonLine(Obj([type |-> Str(<<"a","s","s","i","s","t","a","n","t">>)])),
    JsonLine(Obj([type |-> Str(<<"a","s","s","i","s","t","a","n","t">>), message |-> Str(<<"h","i">>)])),
    JsonLine(Obj([type |-> Str(<<"a","s","s","i","s","t","a","n","t">>), message |-> Obj([content |-> Str(<<"h","i">>)])])),
    JsonLine(Obj([type |-> Str(<<"a","s","s","i","s","t","a","n","t">>), command |-> Str(<<"n","p","m"," ","t","e","s","t">>),
                  message |-> Obj([content |-> Arr(<< ToolUse(Str(<<"B","a","s","h">>), EmptyObj) >>)])])) }

FlatLines ==
  { JsonLine(Obj([tool |-> Str(<<"B","a","s","h">>), command |-> c])) : c \in Commands }
    \cup
  { JsonLine(Obj([command |-> c])) : c \in Commands }
    \cup
  { JsonLine(Obj([name |-> Str(<<"b","a","s","h">>), command |-> Str(<<"e","s","l","i","n","t"," ","."," ","&","&"," ","j","e","s","t">>),
                  description |-> Str(<<"c","h","e","c","k","s"," ","b","e","f","o","r","e"," ","g","i","t"," ","c","o","m","m","i","t">>)])),
    JsonLine(Obj([tool_name |-> Str(<<"b","a","s","h">>), command |-> Str(<<"n","p","m"," ","r","u","n"," ","l","i","n","t"," ","&","&"," ","n","p","m"," ","t","e","s","t">>),
                  description |-> Str(<<"R","u","n"," ","g","i","t"," ","a","d","d"," ","l","a","t","e","r">>)])),
    JsonLine(Obj([tool |-> Str(<<"b","a","s","h">>), command |-> Str(<<"n","p","m"," ","t","e","s","t">>), description |-> Num(5)])),
    JsonLine(Obj([tool |-> Num(5)])),
    JsonLine(Obj([tool |-> Str(<<>>), name |-> Num(5)])),
    JsonLine(Obj([tool |-> Str(<<"r","e","a","d">>), name |-> Num(5), filePath |-> Str(<<"/","a","/","b","/","F","o","o",".","t","s">>)])),
    JsonLine(Obj([tool |-> Str(<<"w","r","i","t","e">>), path |-> Str(<<"x",".","t","e","s","t",".","t","s">>)])),
    JsonLine(Obj([tool |-> Str(<<"e","d","i","t">>), file_path |-> Str(<<"s","r","c","/","A","p","p",".","t","s">>)])),
    JsonLine(Obj([tool |-> Str(<<"w","r","i","t","e">>), file_path |-> Num(5)])),
    JsonLine(Obj([tool |-> Str(<<"w","e","b","f","e","t","c","h">>)])) }

\* the lines given to detectStepFromOutput
OutputLines == EngineLines \cup ClaudeLines \cup FlatLines

\* the lines of the small streams run by several executions
StreamLines ==
  { TodoWriteLine(Str(<<"t","o","d","o","w","r","i","t","e">>),
      Arr(<< Obj([id |-> Str(<<"1">>), content |-> Str(<<"a">>), status |-> Str(<<"i","n","_","p","r","o","g","r","e","s","s">>)]) >>)),
    TodoWriteLine(Str(<<"t","o","d","o","w","r","i","t","e">>), Arr(<<>>)),
    JsonLine(Obj([type |-> Str(<<"s","t","e","p","_","s","t","a","r","t">>)])),
    TextLine(<<"h","e","l","l","o">>) }

\* the lines of the longer stream of one execution
TodoStreamLines ==
  StreamLines \cup
  { TodoWriteLine(Str(<<"t","o","d","o","w","r","i","t","e">>),
      Arr(<< Obj([content |-> Str(<<"b">>)]),
             Obj([id |-> Num(7), content |-> Str(<<"c">>), status |-> Str(<<"c","o","m","p","l","e","t","e","d">>)]) >>)),
    ToolCallLine(Str(<<"r","e","a","d">>), Obj([file_path |-> Str(<<"/","a","/","b","/","F","o","o",".","t","s">>)])),
    TodoWriteLine(Str(<<"t","o","d","o","w","r","i","t","e">>), Arr(<< Null >>)),
    TodoWriteLine(Str(<<"t","o","d","o","w","r","i","t","e">>), Str(<<"a","b","c">>)) }

(***************************************************************************)
(* Result aggregation.  The captured output is the sequence of its lines   *)
(* (the text between the newlines), each with what JSON.parse makes of it. *)
(***************************************************************************)
\* output.split("\n").filter(Boolean)
filterBoolean(output) == SelectSeq(output, LAMBDA l : l.text # <<>>)

\* parsed.type === type inside try/catch: JSON.parse throws on text that is
\* not JSON, and .type throws on null; both are ignored
isEvent(line, type) ==
  /\ JSONparse(line) # SyntaxError
  /\ ~IsNullish(JSONparse(line))
  /\ StrictEq(Get(JSONparse(line), "type"), type)

\* o?.k
OptGet(o, k) == IF IsNullish(o) THEN Undef ELSE Get(o, k)

\* the first error event decides; null when there is none
checkForErrors(output) ==
  LET lines == filterBoolean(output)
      errors == { i \in DOMAIN lines : isEvent(lines[i], <<"e","r","r","o","r">>) }
  IN IF errors = {} THEN Null
     ELSE LET parsed == JSONparse(lines[CHOOSE i \in errors : \A j \in errors : i <= j])
          IN Or(Or(OptGet(Get(parsed, "error"), "message"), Get(parsed, "message")),
                Str(<<"U","n","k","n","o","w","n"," ","e","r","r","o","r">>))

\* the for loop of parseStreamJsonResult over the lines that are left
RECURSIVE resultLoop(_, _)
resultLoop(lines, acc) ==
  IF lines = <<>> THEN acc
  ELSE LET parsed == JSONparse(Head(lines))
       IN resultLoop(Tail(lines),
            IF isEvent(Head(lines), <<"r","e","s","u","l","t">>)
              THEN [response |-> Or(Get(parsed, "result"), Str(<<"T","a","s","k"," ","c","o","m","p","l","e","t","e","d">>)),
                    inputTokens |-> Or(OptGet(Get(parsed, "usage"), "input_tokens"), Num(0)),
                    outputTokens |-> Or(OptGet(Get(parsed, "usage"), "output_tokens"), Num(0))]
              ELSE acc)

parseStreamJsonResult(output) ==
  LET acc == resultLoop(filterBoolean(output),
                        [response |-> Str(<<>>), inputTokens |-> Num(0), outputTokens |-> Num(0)])
  IN [acc EXCEPT !.response = Or(acc.response, Str(<<"T","a","s","k"," ","c","o","m","p","l","e","t","e","d">>))]

\* the first for loop of parseOutput over the lines that are left
RECURSIVE stepFinishLoop(_, _)
stepFinishLoop(lines, acc) ==
  IF lines = <<>> THEN acc
  ELSE LET part == Get(JSONparse(Head(lines)), "part")
       IN stepFinishLoop(Tail(lines),
            IF isEvent(Head(lines), <<"s","t","e","p","_","f","i","n","i","s","h">>)
              THEN [inputTokens |-> Or(OptGet(OptGet(part, "tokens"), "input"), Num(0)),
                    outputTokens |-> Or(OptGet(OptGet(part, "tokens"), "output"), Num(0)),
                    cost |-> IF Truthy(OptGet(part, "cost"))
                               THEN Some(String(OptGet(part, "cost")))
                               ELSE acc.cost]
              ELSE acc)

\* the second for loop of parseOutput: textParts.join("")
RECURSIVE textLoop(_)
textLoop(lines) ==
  IF lines = <<>> THEN <<>>
  ELSE LET text == OptGet(Get(JSONparse(Head(lines)), "part"), "text")
       IN (IF isEvent(Head(lines), <<"t","e","x","t">>) /\ Truthy(text) THEN String(text) ELSE <<>>)
            \o textLoop(Tail(lines))

parseOutput(output) ==
  LET lines == filterBoolean(output)
      acc == stepFinishLoop(lines, [inputTokens |-> Num(0), outputTokens |-> Num(0),
                                    cost |-> None])
  IN [response |-> Or(Str(textLoop(lines)), Str(<<"T","a","s","k"," ","c","o","m","p","l","e","t","e","d">>)),
      inputTokens |-> acc.inputTokens,
      outputTokens |-> acc.outputTokens,
      cost |-> acc.cost]

\* lines.join("\n")
RECURSIVE join(_)
join(texts) ==
  IF texts = <<>> THEN <<>>
  ELSE IF Len(texts) = 1 THEN texts[1]
  ELSE texts[1] \o <<"\n">> \o join(Tail(texts))

\* lines.slice(-n)
sliceLast(lines, n) ==
  SubSeq(lines, (IF Len(lines) > n THEN Len(lines) - n ELSE 0) + 1, Len(lines))

\* the text of the captured output
textOf(output) == join([i \in 1..Len(output) |-> output[i].text])

formatCommandError(exitCode, output) ==
  LET trimmed == trim(textOf(output))
      lines == SelectSeq(split(trimmed), LAMBDA l : l # <<>>)
      snippet == join(sliceLast(lines, 12))
  IN IF trimmed = <<>>
       THEN <<"C","o","m","m","a","n","d"," ","f","a","i","l","e","d"," ","w","i","t","h"," ","e","x","i","t"," ","c","o","d","e"," ">> \o NatToString(exitCode)
       ELSE <<"C","o","m","m","a","n","d"," ","f","a","i","l","e","d"," ","w","i","t","h"," ","e","x","i","t"," ","c","o","d","e"," ">> \o NatToString(exitCode)
              \o <<"."," ","O","u","t","p","u","t",":","\n">> \o snippet

\* AIResult; error and cost are optional
AIResult(success, response, inputTokens, outputTokens, error, cost) ==
  [success |-> success, response |-> response, inputTokens |-> inputTokens,
   outputTokens |-> outputTokens, error |-> error, cost |-> cost]

\* the error check passed although an error event is in the output
aggregateNoShortCircuit(output, exitCode) ==
  LET parsed == parseOutput(output)
  IN IF exitCode # 0
       THEN AIResult(FALSE, parsed.response, parsed.inputTokens, parsed.outputTokens,
                     Some(Str(formatCommandError(exitCode, output))), None)
       ELSE AIResult(TRUE, parsed.response, parsed.inputTokens, parsed.outputTokens,
                     None, parsed.cost)

\* the exit code not consulted
aggregateIgnoreExit(output, exitCode) ==
  LET error == checkForErrors(output)
      parsed == parseOutput(output)
  IN IF Truthy(error)
       THEN AIResult(FALSE, Str(<<>>), Num(0), Num(0), Some(error), None)
       ELSE AIResult(TRUE, parsed.response, parsed.inputTokens, parsed.outputTokens,
                     None, parsed.cost)

\* execute and executeStreaming from the captured output to the return
aggregate(output, exitCode) ==
  LET error == checkForErrors(output)
      parsed == parseOutput(output)
  IN IF Truthy(error)
       THEN AIResult(FALSE, Str(<<>>), Num(0), Num(0), Some(error), None)
     ELSE IF exitCode # 0
       THEN AIResult(FALSE, parsed.response, parsed.inputTokens, parsed.outputTokens,
                     Some(Str(formatCommandError(exitCode, output))), None)
     ELSE AIResult(TRUE, parsed.response, parsed.inputTokens, parsed.outputTokens,
                   None, parsed.cost)

(***************************************************************************)
(* State                                                                   *)
(***************************************************************************)
Runs == 1..MaxRuns
Engines == {"e1", "e2"}

VARIABLES
  currentTodos,  \* OpenCodeEngine.currentTodos of each engine object
  runState,      \* of each executeStreaming call: idle, running, done, aborted
  runEngine,     \* the engine object (this) of each call
  outputLines,   \* the local outputLines of each call
  progress,      \* the StepInfo values handed to each call's onProgress, in order
  startTodos,    \* history: this.currentTodos when the call started
  startAlone,    \* history: no other call was in flight when the call started
  log,           \* history: every detectStepFromLine call, in order
  stepInfo,      \* the last detectStepFromOutput call: its line and outcome
  result,        \* of each executeStreaming call: its exit code and AIResult
  call,          \* the last call of execute, parseStreamJsonResult or
                 \* createDiff: its arguments and return value
  proc,          \* the child process of execCommandStreaming and the locals
                 \* of its readers and handlers, when the model follows them
  spinner        \* the ProgressSpinner object, with the clock and the timers
                 \* of the runtime

vars == <<currentTodos, runState, runEngine, outputLines, progress, startTodos,
          startAlone, log, stepInfo, result, call, proc, spinner>>

Init ==
  /\ currentTodos = [e \in Engines |-> <<>>]
  /\ runState = [r \in Runs |-> "idle"]
  /\ runEngine = [r \in Runs |-> "none"]
  /\ outputLines = [r \in Runs |-> <<>>]
  /\ progress = [r \in Runs |-> <<>>]
  /\ startTodos = [r \in Runs |-> <<>>]
  /\ startAlone = [r \in Runs |-> TRUE]
  /\ log = <<>>
  /\ stepInfo = None
  /\ result = [r \in Runs |-> None]
  /\ call = None
  /\ proc = None
  /\ spinner = None

(***************************************************************************)
(* OpenCodeEngine.executeStreaming                                         *)
(***************************************************************************)
\* the call, up to the await of execCommandStreaming
StartExecution(r, e) ==
  /\ runState[r] = "idle"
  /\ r > 1 => runState[r - 1] # "idle"
  /\ runState' = [runState EXCEPT ![r] = "running"]
  /\ runEngine' = [runEngine EXCEPT ![r] = e]
  /\ startTodos' = [startTodos EXCEPT ![r] = currentTodos[e]]
  /\ startAlone' = [startAlone EXCEPT ![r] = \A q \in Runs : runState[q] # "running"]
  /\ UNCHANGED <<currentTodos, outputLines, progress, log, stepInfo, result, call, proc, spinner>>

\* the event put in front of the earlier ones
deliverFirst(calls, info) == IF info # None THEN <<info[1]>> \o calls ELSE calls

\* if (stepInfo) { onProgress(stepInfo); }
deliver(calls, info) == IF info # None THEN Append(calls, info[1]) ELSE calls

\* the onLine callback, run to completion for one delivered line
OnLine(r, line) ==
  /\ runState[r] = "running"
  /\ LET e == runEngine[r]
         out == detectStepFromLine(line, currentTodos[e])
     IN /\ outputLines' = [outputLines EXCEPT ![r] = Append(@, line)]
        /\ IF out.k = "throw"
             THEN /\ runState' = [runState EXCEPT ![r] = "aborted"]
                  /\ UNCHANGED <<currentTodos, progress>>
                  /\ log' = Append(log, [run |-> r, engine |-> e, line |-> line,
                                         before |-> currentTodos[e],
                                         after |-> currentTodos[e], ev |-> None])
             ELSE /\ currentTodos' = [currentTodos EXCEPT ![e] = out.todos]
                  /\ progress' = [progress EXCEPT ![r] = deliver(@, out.ev)]
                  /\ log' = Append(log, [run |-> r, engine |-> e, line |-> line,
                                         before |-> currentTodos[e],
                                         after |-> out.todos, ev |-> out.ev])
                  /\ UNCHANGED runState
  /\ UNCHANGED <<runEngine, startTodos, startAlone, stepInfo, result, call, proc, spinner>>

\* execCommandStreaming resolves with the exit code: no more lines for this
\* call, which returns the aggregated result
Finish(r, exitCode) ==
  /\ runState[r] = "running"
  /\ runState' = [runState EXCEPT ![r] = "done"]
  /\ result' = [result EXCEPT ![r] = Some([exitCode |-> exitCode,
                                           res |-> aggregate(outputLines[r], exitCode)])]
  /\ UNCHANGED <<currentTodos, runEngine, outputLines, progress, startTodos, startAlone,
                 log, stepInfo, call, proc, spinner>>

\* one call of detectStepFromOutput
ClassifyOutput(line) ==
  /\ stepInfo = None
  /\ log = <<>>
  /\ \A r \in Runs : runState[r] = "idle"
  /\ stepInfo' = Some([line |-> line, out |-> detectStepFromOutput(line)])
  /\ UNCHANGED <<currentTodos, runState, runEngine, outputLines, progress, startTodos,
                 startAlone, log, result, call, proc, spinner>>

\* the state in which one function is called on its own
NothingRun ==
  /\ stepInfo = None /\ call = None /\ log = <<>>
  /\ \A r \in Runs : runState[r] = "idle"

\* one call of OpenCodeEngine.execute whose process wrote output and exited
\* with exitCode
Execute(output, exitCode) ==
  /\ NothingRun
  /\ call' = Some([fn |-> "execute", output |-> output, exitCode |-> exitCode,
                   res |-> aggregate(output, exitCode)])
  /\ UNCHANGED <<currentTodos, runState, runEngine, outputLines, progress, startTodos,
                 startAlone, log, stepInfo, result, proc, spinner>>

\* one call of parseStreamJsonResult
ParseStreamJsonResult(output) ==
  /\ NothingRun
  /\ call' = Some([fn |-> "parseStreamJsonResult", output |-> output,
                   res |-> parseStreamJsonResult(output)])
  /\ UNCHANGED <<currentTodos, runState, runEngine, outputLines, progress, startTodos,
                 startAlone, log, stepInfo, result, proc, spinner>>

\* one call of OpenCodeEngine.createDiff
CreateDiff(filePath, oldContent, newContent, maxLines) ==
  /\ NothingRun
  /\ call' = Some([fn |-> "createDiff", oldContent |-> oldContent,
                   newContent |-> newContent, maxLines |-> maxLines,
                   res |-> createDiff(filePath, oldContent, newContent, maxLines)])
  /\ UNCHANGED <<currentTodos, runState, runEngine, outputLines, progress, startTodos,
                 startAlone, log, stepInfo, result, proc, spinner>>

(***************************************************************************)
(* Specifications                                                          *)
(***************************************************************************)
\* several executions, possibly on one engine object, with interleaved lines;
\* in this and the next specifications the process exits with code 0
Next ==
  \/ \E r \in Runs, e \in Engines : StartExecution(r, e)
  \/ \E r \in Runs, line \in StreamLines : Len(log) < MaxLines /\ OnLine(r, line)
  \/ \E r \in Runs : Finish(r, 0)

Spec == Init /\ [][Next]_vars

\* one execution of one engine over a longer stream
NextStream ==
  \/ StartExecution(1, "e1")
  \/ \E line \in TodoStreamLines : Len(log) < MaxStream /\ OnLine(1, line)
  \/ Finish(1, 0)

SpecStream == Init /\ [][NextStream]_vars

\* one classifier applied to lines of every shape: one execution of one
\* engine, or one call of detectStepFromOutput
NextClassify ==
  \/ StartExecution(1, "e1")
  \/ \E line \in EngineLines : Len(log) < MaxSeq /\ stepInfo = None /\ OnLine(1, line)
  \/ Finish(1, 0)
  \/ \E line \in OutputLines : ClassifyOutput(line)

SpecClassify == Init /\ [][NextClassify]_vars


(***************************************************************************)
(* Claims                                                                  *)
(***************************************************************************)
\* C1: fail-open classification.  Whatever the line (not JSON, invalid JSON,
\* missing fields, fields of unexpected types, empty), detectStepFromLine and
\* detectStepFromOutput return null or an event with a canonical step, and
\* neither raises: no execution is aborted by a line.
C1_FailOpen ==
  /\ \A r \in Runs : runState[r] # "aborted"
  /\ \A i \in DOMAIN log :
       log[i].ev = None \/ log[i].ev[1].step \in CanonicalSteps
  /\ stepInfo # None =>
       /\ stepInfo[1].out.k = "return"
       /\ stepInfo[1].out.ev = None \/ stepInfo[1].out.ev[1].step \in CanonicalSteps

\* a null todo entry and then a numeric tool name went through the engine,
\* both gave null, and the execution is still running
C1_Witness ==
  /\ Len(log) = 2
  /\ log[1].line = TodoWriteLine(Str(<<"t","o","d","o","w","r","i","t","e">>), Arr(<< Null >>))
  /\ log[2].line = ToolCallLine(Num(5), EmptyObj)
  /\ log[1].ev = None /\ log[2].ev = None
  /\ runState[1] = "running"


(***************************************************************************)
(* What the claims call a todo write, read off the line itself             *)
(***************************************************************************)
\* the line is a tool call named todowrite or mcp_todowrite (in any letter case)
IsTodoWriteLine(line) ==
  /\ line.json # SyntaxError
  /\ StrictEq(Get(line.json, "type"), <<"t","o","o","l","_","c","a","l","l">>)
  /\ Get(line.json, "part").t = "object"
  /\ IsStr(Get(Get(line.json, "part"), "name"))
  /\ toLowerCase(Get(Get(line.json, "part"), "name").s) \in {<<"t","o","d","o","w","r","i","t","e">>, <<"m","c","p","_","t","o","d","o","w","r","i","t","e">>}

\* its input.todos
TodosOf(line) == Get(Or(Get(Get(line.json, "part"), "input"), EmptyObj), "todos")

\* one field of the expected TodoItem: a string or number as text, the default
\* when the field is missing (or null, empty, zero)
ExpectedText(t, k) ==
  LET v == Get(t, k)
  IN IF v.t = "string" THEN v.s
     ELSE IF v.t = "number" /\ v.n # 0 THEN NatToString(v.n)
     ELSE <<>>

ExpectedTodo(t) ==
  [id |-> ExpectedText(t, "id"),
   content |-> ExpectedText(t, "content"),
   status |-> IF Get(t, "status").t = "string" /\ Get(t, "status").s # <<>>
                THEN Get(t, "status") ELSE Str(<<"p","e","n","d","i","n","g">>)]

\* the payload of a todo write as the tracked list should hold it
ExpectedTodos(line) ==
  [j \in 1..Len(TodosOf(line).a) |-> ExpectedTodo(TodosOf(line).a[j])]

\* a todo write whose todos is a list without null entries
IsAcceptedTodoWrite(line) ==
  /\ IsTodoWriteLine(line)
  /\ TodosOf(line).t = "array"
  /\ \A j \in 1..Len(TodosOf(line).a) : ~IsNullish(TodosOf(line).a[j])

\* C2: the tracked todo list is scoped to one execution: an executeStreaming
\* call that starts while no other call is in flight (in particular after an
\* earlier call on the same engine object has ended) starts with an empty
\* tracked list.
C2_TodosScopedToExecution ==
  \A r \in Runs :
    (runState[r] # "idle" /\ startAlone[r]) => startTodos[r] = <<>>

\* C3: classifier state is not shared across concurrent executions: every
\* event handed to a call's onProgress carries only todos written by a todo
\* write line of that same call (calls that started with an empty list).
C3_NoSharingAcrossRuns ==
  \A r \in Runs :
    startTodos[r] = <<>> =>
      \A k \in DOMAIN progress[r] :
        progress[r][k].todos # None =>
          \E i \in DOMAIN outputLines[r] :
            /\ IsAcceptedTodoWrite(outputLines[r][i])
            /\ ExpectedTodos(outputLines[r][i]) = progress[r][k].todos[1]

\* the detectStepFromLine calls of execution r, in order
CallsOf(r) == SelectSeq(log, LAMBDA c : c.run = r)

\* the non-null classifications of a sequence of calls, in order
RECURSIVE Classifications(_)
Classifications(calls) ==
  IF calls = <<>> THEN <<>>
  ELSE detectStepFromLine(Head(calls).line, Head(calls).before).ev
         \o Classifications(Tail(calls))

\* C4: in executeStreaming each delivered line is buffered and classified
\* once, and the onProgress calls are exactly the non-null classifications of
\* the delivered lines, in arrival order: none duplicated, reordered, dropped.
C4_ProgressInLineOrder ==
  \A r \in Runs :
    /\ outputLines[r] = [i \in 1..Len(CallsOf(r)) |-> CallsOf(r)[i].line]
    /\ progress[r] = Classifications(CallsOf(r))

\* an execution was given two lines that classify to different events, and
\* both were handed to its onProgress
C4_Witness ==
  \E r \in Runs :
    /\ Len(outputLines[r]) = 2
    /\ Len(progress[r]) = 2
    /\ progress[r][1].step # progress[r][2].step


\* C5 as claimed: on a todo write whose input.todos is a list, the tracked
\* list afterwards has the payload's length and order, every item mapped
\* (missing id/content to the empty string, missing status to pending), and a
\* Planning event carrying the new list is emitted.
C5_ListReplacesTracked ==
  \A i \in DOMAIN log :
    (IsTodoWriteLine(log[i].line) /\ TodosOf(log[i].line).t = "array") =>
      /\ Len(log[i].after) = Len(TodosOf(log[i].line).a)
      /\ \A j \in 1..Len(log[i].after) :
           ~IsNullish(TodosOf(log[i].line).a[j]) =>
             log[i].after[j] = ExpectedTodo(TodosOf(log[i].line).a[j])
      /\ log[i].ev = Some(StepInfo("Planning", None, None, Some(log[i].after)))

\* C5 amended: on a todo write whose input.todos is a list without null
\* entries, the tracked list afterwards equals exactly the mapped payload
\* (nothing of the previous list survives) and a Planning event carrying that
\* list is emitted.
C5_ListWithoutNullReplacesTracked ==
  \A i \in DOMAIN log :
    IsAcceptedTodoWrite(log[i].line) =>
      /\ log[i].after = ExpectedTodos(log[i].line)
      /\ log[i].ev = Some(StepInfo("Planning", None, None, Some(ExpectedTodos(log[i].line))))
      /\ i = Len(log) => currentTodos[log[i].engine] = ExpectedTodos(log[i].line)

\* a non-empty list was tracked, then a todo write with another list, one of
\* whose items has no id and no status, replaced it
C5_Witness ==
  /\ Len(log) = 2
  /\ IsAcceptedTodoWrite(log[1].line) /\ log[1].after # <<>>
  /\ IsAcceptedTodoWrite(log[2].line)
  /\ \E j \in 1..Len(TodosOf(log[2].line).a) :
       /\ Get(TodosOf(log[2].line).a[j], "id") = Undef
       /\ Get(TodosOf(log[2].line).a[j], "status") = Undef
  /\ \A j \in 1..Len(log[1].after) :
       \A k \in 1..Len(log[2].after) : log[1].after[j] # log[2].after[k]
  /\ currentTodos["e1"] = log[2].after

\* the payload of the most recent accepted todo write before call j of the
\* same engine (the empty list when there is none)
LastWritten(j) ==
  LET writes == { i \in 1..(j - 1) : /\ log[i].engine = log[j].engine
                                    /\ IsAcceptedTodoWrite(log[i].line) }
  IN IF writes = {} THEN <<>>
     ELSE ExpectedTodos(log[CHOOSE i \in writes : \A h \in writes : h <= i].line)

\* C6: every event of detectStepFromLine that is not a todo write event
\* carries the payload of the most recent accepted todo write when that list
\* is non-empty, and no todos field when the tracked list is empty.
C6_EventsCarryTrackedList ==
  \A j \in DOMAIN log :
    (log[j].ev # None /\ ~IsAcceptedTodoWrite(log[j].line)) =>
      /\ log[j].ev[1].step # "Planning"
      /\ log[j].ev[1].todos =
           (IF LastWritten(j) # <<>> THEN Some(LastWritten(j)) ELSE None)

\* after a todo write of two items, a write to a test file gave an event that
\* carries the two items
C6_Witness ==
  /\ Len(log) = 2
  /\ IsAcceptedTodoWrite(log[1].line) /\ Len(log[1].after) = 2
  /\ log[2].ev # None /\ log[2].ev[1].step = "Writing tests"
  /\ log[2].ev[1].todos = Some(log[1].after)

\* C7: a todo write whose todos is not a list (missing, a string, a number,
\* an object) is ignored: the tracked list is unchanged and no Planning event
\* is emitted for the line.
C7_NonListIgnored ==
  \A i \in DOMAIN log :
    (IsTodoWriteLine(log[i].line) /\ TodosOf(log[i].line).t # "array") =>
      /\ log[i].after = log[i].before
      /\ log[i].ev = None \/ log[i].ev[1].step # "Planning"
      /\ i = Len(log) => currentTodos[log[i].engine] = log[i].before

\* a non-empty list was tracked when a todo write with a string for todos
\* arrived, and the list is still tracked
C7_Witness ==
  /\ Len(log) = 2
  /\ IsAcceptedTodoWrite(log[1].line) /\ log[1].after # <<>>
  /\ log[2].line = TodoWriteLine(Str(<<"t","o","d","o","w","r","i","t","e">>), Str(<<"a","b","c">>))
  /\ currentTodos["e1"] = log[1].after

\* call i is an accepted todo write with an empty list that follows an accepted
\* todo write with a non-empty list, and no accepted todo write with a
\* non-empty list came after it up to call j
EmptiedBefore(i, j) ==
  /\ i < j
  /\ IsAcceptedTodoWrite(log[i].line) /\ TodosOf(log[i].line).a = <<>>
  /\ \E h \in 1..(i - 1) :
       IsAcceptedTodoWrite(log[h].line) /\ TodosOf(log[h].line).a # <<>>
  /\ \A m \in (i + 1)..j :
       ~(IsAcceptedTodoWrite(log[m].line) /\ TodosOf(log[m].line).a # <<>>)

\* C8 as claimed: after a non-empty todo write followed by an empty one the
\* tracked list is empty, and every event of a later line (until another
\* non-empty todo write) carries no todos field.
C8_NoTodosAfterEmptyWrite ==
  \A i \in DOMAIN log : \A j \in DOMAIN log :
    EmptiedBefore(i, j) =>
      /\ log[i].after = <<>>
      /\ log[j].ev # None => log[j].ev[1].todos = None

\* C8 amended: ... every event of a later line that is not itself a todo
\* write carries no todos field (a later empty todo write emits a Planning
\* event whose todos field is the empty list).
C8_NoTodosAfterEmptyWriteExceptWrites ==
  \A i \in DOMAIN log : \A j \in DOMAIN log :
    EmptiedBefore(i, j) =>
      /\ log[i].after = <<>> /\ log[j].before = <<>>
      /\ (log[j].ev # None /\ ~IsTodoWriteLine(log[j].line)) =>
           log[j].ev[1].todos = None

\* a non-empty todo write, an empty one, then a read whose event has no todos
C8_Witness ==
  /\ Len(log) = 3
  /\ EmptiedBefore(2, 3)
  /\ log[3].ev # None /\ log[3].ev[1].step = "Reading code"
  /\ log[3].ev[1].todos = None
  /\ currentTodos["e1"] = <<>>

\* C9: todo write is idempotent: the same todo write line processed twice in
\* a row leaves the tracked list, and emits the event, of processing it once.
C9_TodoWriteIdempotent ==
  \A i \in DOMAIN log :
    (i + 1 \in DOMAIN log /\ log[i + 1].line = log[i].line
       /\ log[i + 1].engine = log[i].engine /\ IsTodoWriteLine(log[i].line)) =>
      /\ log[i + 1].after = log[i].after
      /\ log[i + 1].ev = log[i].ev

\* a list was tracked, then a todo write with another non-empty list was
\* processed twice
C9_Witness ==
  /\ Len(log) = 3
  /\ IsAcceptedTodoWrite(log[1].line) /\ log[1].after # <<>>
  /\ log[2].line # log[1].line /\ log[3].line = log[2].line
  /\ IsAcceptedTodoWrite(log[2].line) /\ Len(log[2].after) = 2
  /\ currentTodos["e1"] = log[2].after


\* the commands that contain a lint marker and a test marker and neither
\* 'git commit' nor 'git add' (case-insensitively)
LintAndTestCommands ==
  { c \in Commands :
      /\ IsStr(c)
      /\ \E m \in {<<"l","i","n","t">>, <<"e","s","l","i","n","t">>, <<"b","i","o","m","e">>, <<"p","r","e","t","t","i","e","r">>} :
           includes(toLowerCase(c.s), m)
      /\ \E m \in {<<"v","i","t","e","s","t">>, <<"j","e","s","t">>, <<"b","u","n"," ","t","e","s","t">>, <<"n","p","m"," ","t","e","s","t">>, <<"p","y","t","e","s","t">>,
                   <<"g","o"," ","t","e","s","t">>} :
           includes(toLowerCase(c.s), m)
      /\ ~includes(toLowerCase(c.s), <<"g","i","t"," ","c","o","m","m","i","t">>)
      /\ ~includes(toLowerCase(c.s), <<"g","i","t"," ","a","d","d">>) }

\* the bash invocations of such a command, in the three line formats
LintAndTestLines ==
  { ToolCallLine(Str(<<"b","a","s","h">>), Obj([command |-> c])) : c \in LintAndTestCommands }
    \cup { AssistantLine(<< ToolUse(Str(<<"B","a","s","h">>), Obj([command |-> c])) >>) :
             c \in LintAndTestCommands }
    \cup { JsonLine(Obj([tool |-> Str(<<"B","a","s","h">>), command |-> c])) : c \in LintAndTestCommands }

\* C10: lint precedes test: in detectStepFromOutput and in
\* OpenCodeEngine.detectStepFromLine a bash invocation whose command contains
\* a lint marker and a test marker (and neither 'git commit' nor 'git add') is
\* classified Linting.
C10_LintPrecedesTest ==
  /\ \A i \in DOMAIN log :
       log[i].line \in LintAndTestLines =>
         log[i].ev # None /\ log[i].ev[1].step = "Linting"
  /\ (stepInfo # None /\ stepInfo[1].line \in LintAndTestLines
        /\ ~StrictEq(Get(stepInfo[1].line.json, "type"), <<"t","o","o","l","_","c","a","l","l">>)) =>
       stepInfo[1].out.ev # None /\ stepInfo[1].out.ev[1].step = "Linting"


\* a test-runner marker of the specification occurs in the command
\* (case-insensitively)
HasTestRunner(c) ==
  \E m \in {<<"v","i","t","e","s","t">>, <<"j","e","s","t">>, <<"b","u","n"," ","t","e","s","t">>, <<"n","p","m"," ","t","e","s","t">>, <<"p","y","t","e","s","t">>, <<"g","o"," ","t","e","s","t">>} :
    includes(toLowerCase(c), m)

\* the commands that contain no 'git commit', no 'git add' and no lint marker
PlainCommands ==
  { c \in Commands :
      /\ IsStr(c)
      /\ \A m \in {<<"g","i","t"," ","c","o","m","m","i","t">>, <<"g","i","t"," ","a","d","d">>, <<"l","i","n","t">>, <<"e","s","l","i","n","t">>, <<"b","i","o","m","e">>, <<"p","r","e","t","t","i","e","r">>} :
           ~includes(toLowerCase(c.s), m) }

\* the step claimed for a bash invocation of a plain command (None: no event)
PlainStep(c) ==
  IF HasTestRunner(c.s) THEN Some("Testing")
  ELSE IF c.s # <<>> THEN Some("Running command")
  ELSE None

\* the step of an optional event
StepOf(ev) == IF ev = None THEN None ELSE Some(ev[1].step)

\* C11: a bash invocation whose command contains no 'git commit', 'git add' or
\* lint marker is Testing exactly when the command contains vitest, jest,
\* 'bun test', 'npm test', pytest or 'go test'; otherwise it is Running command
\* when the command is non-empty and no event when it is empty.  This holds in
\* OpenCodeEngine.detectStepFromLine and in detectStepFromOutput (nested and
\* flat format).
C11_TestingByRunnerElseRunning ==
  /\ \A i \in DOMAIN log : \A c \in PlainCommands :
       log[i].line = ToolCallLine(Str(<<"b","a","s","h">>), Obj([command |-> c])) =>
         StepOf(log[i].ev) = PlainStep(c)
  /\ \A c \in PlainCommands :
       (stepInfo # None
          /\ stepInfo[1].line \in
               { AssistantLine(<< ToolUse(Str(<<"B","a","s","h">>), Obj([command |-> c])) >>),
                 JsonLine(Obj([tool |-> Str(<<"B","a","s","h">>), command |-> c])) }) =>
         StepOf(stepInfo[1].out.ev) = PlainStep(c)


\* the path matches the test-file heuristics of the specification
IsTestPath(p) ==
  \E m \in {<<".","t","e","s","t",".">>, <<".","s","p","e","c",".">>, <<"_","_","t","e","s","t","s","_","_">>, <<"_","t","e","s","t",".","g","o">>} :
    includes(toLowerCase(p), m)

\* the step claimed for a write or edit of path p
WriteStep(p) == Some(IF IsTestPath(p) THEN "Writing tests" ELSE "Implementing")

\* a string names the write family (in any letter case)
IsWriteName(v) == IsStr(v) /\ toLowerCase(v.s) \in {<<"w","r","i","t","e">>, <<"e","d","i","t">>}

\* input.file_path || input.path
PathOf(input) == Or(Get(input, "file_path"), Get(input, "path"))

\* the line is an OpenCode tool call of the write family with a string path
\* and contents that are strings or missing
IsWriteCall(line) ==
  /\ line.json # SyntaxError
  /\ StrictEq(Get(line.json, "type"), <<"t","o","o","l","_","c","a","l","l">>)
  /\ Get(line.json, "part").t = "object"
  /\ IsWriteName(Get(Get(line.json, "part"), "name"))
  /\ Get(Get(line.json, "part"), "input").t = "object"
  /\ IsStr(PathOf(Get(Get(line.json, "part"), "input")))
  /\ \A k \in {"old_string", "oldString", "content", "new_string", "newString"} :
       Get(Get(Get(line.json, "part"), "input"), k).t \in {"undefined", "string"}

\* the nested and flat write-family invocations of path p given to
\* detectStepFromOutput
WriteInvocations(p) ==
  { AssistantLine(<< ToolUse(n, Obj(k :> Str(p))) >>) :
      n \in {Str(<<"W","r","i","t","e">>), Str(<<"E","d","i","t">>)}, k \in {"file_path", "path"} }
    \cup { JsonLine(Obj(("tool" :> n) @@ (k :> Str(p)))) :
             n \in {Str(<<"w","r","i","t","e">>), Str(<<"e","d","i","t">>)}, k \in {"file_path", "path"} }

\* C12: a write or edit tool call is classified Writing tests exactly when
\* its target path contains '.test.', '.spec.', '__tests__' or '_test.go'
\* (case-insensitively) and Implementing otherwise, in
\* OpenCodeEngine.detectStepFromLine and in detectStepFromOutput.
C12_WritingTestsByPath ==
  /\ \A i \in DOMAIN log :
       IsWriteCall(log[i].line) =>
         StepOf(log[i].ev) =
           WriteStep(PathOf(Get(Get(log[i].line.json, "part"), "input")).s)
  /\ \A p \in {<<"x",".","t","e","s","t",".","t","s">>, <<"s","r","c","/","A","p","p",".","t","s">>, <<"p","k","g","/","f","o","o","_","t","e","s","t",".","g","o">>} :
       (stepInfo # None /\ stepInfo[1].line \in WriteInvocations(p)) =>
         StepOf(stepInfo[1].out.ev) = WriteStep(p)


(***************************************************************************)
(* Lines whose display text matters: commands and paths in mixed letter    *)
(* case and longer than the display widths, several tool invocations in    *)
(* one line, nested invocations together with flat fields                  *)
(***************************************************************************)
\* test-runner commands: short, in mixed case, and longer than 50 characters
RunnerCommands ==
  { <<"n","p","m"," ","t","e","s","t">>, <<"n","p","m"," ","t","e","s","t"," ","-","-"," ","F","o","o",".","t","e","s","t",".","t","s">>,
    <<"g","o"," ","t","e","s","t"," ",".","/","i","n","t","e","r","n","a","l","/","a","g","g","r","e","g","a","t","e","/",".",".","."," ",".","/","c","m","d","/","r","a","l","p","h","y","/",".",".","."," ","-","r","u","n"," ","T","e","s","t","L","a","s","t","W","r","i","t","e","W","i","n","s">> }

\* file paths: short, and longer than 60 characters
ShownPaths ==
  { <<"/","a","/","b","/","F","o","o",".","t","s">>,
    <<"/","h","o","m","e","/","d","e","v","/","p","r","o","j","e","c","t","s","/","s","u","d","i","-","r","a","l","p","h","y","/","s","r","c","/","c","l","i","/","s","r","c","/","u","i","/","c","o","m","p","o","n","e","n","t","s","/","P","r","o","g","r","e","s","s","S","p","i","n","n","e","r",".","t","s","x">> }

\* the lines given to OpenCodeEngine.detectStepFromLine
ShownLines ==
  { ToolCallLine(Str(<<"b","a","s","h">>), Obj([command |-> Str(c)])) : c \in RunnerCommands }
    \cup { ToolCallLine(Str(<<"r","e","a","d">>), Obj([file_path |-> Str(p)])) : p \in ShownPaths }
    \cup { ToolCallLine(Str(<<"G","r","e","p">>), Obj([path |-> Str(p)])) : p \in ShownPaths }
    \cup { ToolCallLine(Str(<<"g","l","o","b">>), EmptyObj), JsonLine(Obj([type |-> Str(<<"s","t","e","p","_","s","t","a","r","t">>)])) }

\* message.content lists with several items
ContentLists ==
  { << ToolUse(Str(<<"R","e","a","d">>), Obj([file_path |-> Str(<<"/","a","/","b","/","F","o","o",".","t","s">>)])),
       ToolUse(Str(<<"B","a","s","h">>), Obj([command |-> Str(<<"n","p","m"," ","t","e","s","t">>)])) >>,
    << ToolUse(Str(<<"B","a","s","h">>), Obj([command |-> Str(<<"n","p","m"," ","t","e","s","t">>)])),
       ToolUse(Str(<<"W","r","i","t","e">>), Obj([path |-> Str(<<"x",".","t","e","s","t",".","t","s">>)])) >>,
    << Obj([type |-> Str(<<"t","e","x","t">>), text |-> Str(<<"o","k">>)]),
       ToolUse(Str(<<"E","d","i","t">>), Obj([file_path |-> Str(<<"s","r","c","/","A","p","p",".","t","s">>)])),
       ToolUse(Str(<<"B","a","s","h">>), Obj([command |-> Str(<<"g","i","t"," ","c","o","m","m","i","t"," ","-","m"," ","x">>)])) >>,
    << Obj([type |-> Str(<<"t","o","o","l","_","u","s","e">>), input |-> Obj([command |-> Str(<<"e","s","l","i","n","t"," ",".">>)])]),
       ToolUse(Str(<<"B","a","s","h">>), Obj([command |-> Str(<<>>)])),
       ToolUse(Str(<<"B","a","s","h">>), Obj([command |-> Str(<<"e","s","l","i","n","t"," ",".">>)])) >>,
    << ToolUse(Str(<<"W","e","b","F","e","t","c","h">>), EmptyObj),
       ToolUse(Str(<<"B","a","s","h">>), Obj([command |-> Str(<<"n","p","m"," ","t","e","s","t">>)])) >>,
    << ToolUse(Num(5), EmptyObj), ToolUse(Str(<<"R","e","a","d">>), EmptyObj) >> }

\* flat top-level fields added to an assistant line
FlatFields ==
  { <<>>,
    [tool |-> Str(<<"b","a","s","h">>), command |-> Str(<<"n","p","m"," ","r","u","n"," ","l","i","n","t">>)],
    [name |-> Str(<<"r","e","a","d">>), path |-> Str(<<"/","a","/","b","/","F","o","o",".","t","s">>), description |-> Str(<<"g","i","t"," ","c","o","m","m","i","t">>)],
    [command |-> Str(<<"g","i","t"," ","a","d","d"," ",".">>), file_path |-> Str(<<"x",".","s","p","e","c",".","t","s">>)] }

\* {"type":"assistant","message":{"content":content}, ...flat}
AssistantLineWith(content, flat) ==
  JsonLine(Obj([type |-> Str(<<"a","s","s","i","s","t","a","n","t">>), message |-> Obj([content |-> Arr(content)])] @@ flat))

\* the lines given to detectStepFromOutput
ShownOutputLines ==
  { AssistantLine(<< ToolUse(Str(<<"B","a","s","h">>), Obj([command |-> Str(c)])) >>) : c \in RunnerCommands }
    \cup { JsonLine(Obj([tool |-> Str(<<"b","a","s","h">>), command |-> Str(c)])) : c \in RunnerCommands }
    \cup { AssistantLine(<< ToolUse(Str(<<"R","e","a","d">>), Obj([file_path |-> Str(p)])) >>) : p \in ShownPaths }
    \cup { JsonLine(Obj([tool |-> Str(<<"g","l","o","b">>), filePath |-> Str(p)])) : p \in ShownPaths }
    \cup { AssistantLineWith(content, flat) : content \in ContentLists, flat \in FlatFields }

\* the length of the engine streams of SpecShow
MaxShow == 2

\* one classifier applied to the lines above: one execution of one engine, or
\* one call of detectStepFromOutput
NextShow ==
  \/ StartExecution(1, "e1")
  \/ \E line \in ShownLines : Len(log) < MaxShow /\ stepInfo = None /\ OnLine(1, line)
  \/ Finish(1, 0)
  \/ \E line \in ShownOutputLines : ClassifyOutput(line)

SpecShow == Init /\ [][NextShow]_vars


\* text is 'Running: ' followed by the command c truncated to 50 characters
IsCommandEcho(text, c) ==
  /\ Len(text) >= 9 /\ SubSeq(text, 1, 9) = <<"R","u","n","n","i","n","g",":"," ">>
  /\ LET t == SubSeq(text, 10, Len(text))
     IN IF Len(c) <= 50 THEN t = c
        ELSE Len(t) = 50 /\ SubSeq(t, 1, 47) = SubSeq(c, 1, 47)

\* the event is Testing with the echo of command c
IsTestingEcho(ev, c) ==
  /\ ev # None
  /\ ev[1].step = "Testing"
  /\ ev[1].toolOutput # None /\ IsCommandEcho(ev[1].toolOutput[1], c)

\* C13: a tool call {name:"bash", input:{command: C}} where C names a test
\* runner yields {step: Testing, toolOutput: 'Running: ' followed by C
\* truncated to 50 characters}: the command under input is the one classified
\* and echoed, in the OpenCode tool_call part and in the nested tool_use item.
C13_TestingEchoesCommand ==
  \A c \in RunnerCommands :
    /\ \A i \in DOMAIN log :
         log[i].line = ToolCallLine(Str(<<"b","a","s","h">>), Obj([command |-> Str(c)])) =>
           IsTestingEcho(log[i].ev, c)
    /\ (stepInfo # None
          /\ stepInfo[1].line = AssistantLine(<< ToolUse(Str(<<"B","a","s","h">>), Obj([command |-> Str(c)])) >>)) =>
         IsTestingEcho(stepInfo[1].out.ev, c)


\* the file name of a path: what follows its last '/'
FileName(p) ==
  LET slashes == { i \in 1..Len(p) : p[i] = "/" }
      last == IF slashes = {} THEN 0 ELSE CHOOSE i \in slashes : \A j \in slashes : j <= i
  IN SubSeq(p, last + 1, Len(p))

\* text ends with suffix
endsWith(text, suffix) ==
  Len(text) >= Len(suffix)
    /\ SubSeq(text, Len(text) - Len(suffix) + 1, Len(text)) = suffix

\* the event is Reading code and shows at most 60 characters that end with the
\* file name of path p in its original letter case
IsReadingTail(ev, p) ==
  /\ ev # None
  /\ ev[1].step = "Reading code"
  /\ ev[1].toolOutput # None
  /\ Len(ev[1].toolOutput[1]) <= 60
  /\ endsWith(ev[1].toolOutput[1], FileName(p))

\* C14: a read, glob or grep tool call that carries a file path yields a
\* Reading code event whose toolOutput is the tail of the path: at most 60
\* characters, ending in the file name in its original letter case.
C14_ReadingShowsPathTail ==
  \A p \in ShownPaths :
    /\ \A i \in DOMAIN log :
         log[i].line \in { ToolCallLine(Str(<<"r","e","a","d">>), Obj([file_path |-> Str(p)])),
                           ToolCallLine(Str(<<"G","r","e","p">>), Obj([path |-> Str(p)])) } =>
           IsReadingTail(log[i].ev, p)
    /\ (stepInfo # None
          /\ stepInfo[1].line \in
               { AssistantLine(<< ToolUse(Str(<<"R","e","a","d">>), Obj([file_path |-> Str(p)])) >>),
                 JsonLine(Obj([tool |-> Str(<<"g","l","o","b">>), filePath |-> Str(p)])) }) =>
         IsReadingTail(stepInfo[1].out.ev, p)


\* the item is a tool_use with a name
IsNamedToolUse(item) ==
  item.t = "object" /\ StrictEq(Get(item, "type"), <<"t","o","o","l","_","u","s","e">>) /\ Truthy(Get(item, "name"))

\* message.content of an assistant line
ContentOf(line) == Get(Get(line.json, "message"), "content")

\* an assistant line whose content is a list of items, none of them null,
\* with a named tool_use among them
IsToolUseLine(line) ==
  /\ line.json # SyntaxError
  /\ StrictEq(Get(line.json, "type"), <<"a","s","s","i","s","t","a","n","t">>)
  /\ Get(line.json, "message").t = "object"
  /\ ContentOf(line).t = "array"
  /\ \A i \in 1..Len(ContentOf(line).a) : ~IsNullish(ContentOf(line).a[i])
  /\ \E i \in 1..Len(ContentOf(line).a) : IsNamedToolUse(ContentOf(line).a[i])

\* the first named tool_use item of such a line
FirstToolUse(line) ==
  LET a == ContentOf(line).a
  IN a[CHOOSE i \in 1..Len(a) :
         IsNamedToolUse(a[i]) /\ \A j \in 1..(i - 1) : ~IsNamedToolUse(a[j])]

DiffContents ==
  { Str(<<>>), Str(<<"a">>), Str(<<"a","\n","b","\n","c","\n","d","\n","e","\n","f">>),
    Str(<<"y","y","y","y","y","y","y","y","y","y","y","y","y","y","y","y","y","y","y","y","y","y","y","y","y","y","y","y","y","y","y","y","y","y","y","y","y","y","y","y","y","y","y","y","y","y","y","y","y","y","y","y","y","y","y","y","y","y","y","y","y","y","y","y","y","y","y","y","y","y">>),
    Str(<<"x","x","x","x","x","x","x","x","x","x","x","x","x","x","x","x","x","x","x","x","x","x","x","x","x","x","x","x","x","x","x","x","x","x","x","x","x","x","x","x","x","x","x","x","x","x","x","x","x","x","x","x","x","x","x","x","x","x","x","x","x","x","x","x","x","x","x","W","X","Y","Z">>),
    Str(<<"x","\n","z","z","z","z","z","z","z","z","z","z","z","z","z","z","z","z","z","z","z","z","z","z","z","z","z","z","z","z","z","z","z","z","z","z","z","z","z","z","z","z","z","z","z","z","z","z","z","z","z","z","z","z","z","z","z","z","z","z","z","z","0","1","2","3","4","5","6","7","8","9","a","b","c","d","e","f","g","h","i","j","\n","\n","y">>) }

\* the largest maxLines given to createDiff
MaxDiffLines == 5

\* write and edit tool calls with and without contents
DiffLines ==
  { ToolCallLine(Str(<<"w","r","i","t","e">>), Obj([file_path |-> Str(<<"a",".","t","s">>)])),
    ToolCallLine(Str(<<"e","d","i","t">>), Obj([file_path |-> Str(<<"a",".","t","s">>), old_string |-> Str(<<>>),
                                 new_string |-> Str(<<>>)])) }
    \cup { ToolCallLine(Str(<<"w","r","i","t","e">>), Obj([path |-> Str(<<"a",".","t","s">>), content |-> c])) :
             c \in DiffContents }
    \cup { ToolCallLine(Str(<<"e","d","i","t">>), Obj([file_path |-> Str(<<"a",".","t","s">>), oldString |-> c,
                                         newString |-> Str(<<"a","\n","b","\n","c","\n","d","\n","e","\n","f">>)])) :
             c \in DiffContents }
    \cup { ToolCallLine(Str(<<"E","d","i","t">>), Obj([file_path |-> Str(<<"a",".","t","e","s","t",".","t","s">>), old_string |-> c])) :
             c \in DiffContents }

NextDiff ==
  \/ call = None /\ StartExecution(1, "e1")
  \/ \E line \in DiffLines : Len(log) < MaxShow /\ call = None /\ OnLine(1, line)
  \/ Finish(1, 0)
  \/ \E oldContent \in DiffContents, newContent \in DiffContents, maxLines \in 0..MaxDiffLines :
       CreateDiff(<<"a",".","t","s">>, oldContent, newContent, maxLines)

SpecDiff == Init /\ [][NextDiff]_vars


\* the sides of a DiffInfo that are present
SidesOf(diff) == { s \in {diff.oldLines, diff.newLines} : s # None }

\* a DiffInfo within the bounds: at most maxLines entries per side, at most 70
\* characters per entry
IsBoundedDiff(diff, maxLines) ==
  \A s \in SidesOf(diff) :
    /\ Len(s[1]) <= maxLines
    /\ \A i \in 1..Len(s[1]) : Len(s[1][i]) <= 70

\* C16: diff bound.  For every old content, new content and maxLines the
\* DiffInfo returned by createDiff has at most maxLines entries in oldLines and
\* in newLines, and every entry has at most 70 characters; so has the diff of
\* every write and edit event (maxLines is 4 there).
C16_DiffBound ==
  /\ (call # None /\ call[1].fn = "createDiff") =>
       /\ call[1].res.k = "return"
       /\ call[1].res.ev # None => IsBoundedDiff(call[1].res.ev[1], call[1].maxLines)
  /\ \A i \in DOMAIN log :
       (log[i].ev # None /\ log[i].ev[1].diff # None) =>
         IsBoundedDiff(log[i].ev[1].diff[1], 4)

\* createDiff was given more lines than maxLines on one side and a line of 80
\* characters on the other: it returned maxLines entries and an entry of 70
C16_Witness ==
  /\ call # None /\ call[1].fn = "createDiff"
  /\ call[1].maxLines = 3
  /\ Len(split(call[1].oldContent.s)) = 6
  /\ \E l \in 1..Len(split(call[1].newContent.s)) : Len(split(call[1].newContent.s)[l]) = 80
  /\ call[1].res.ev # None
  /\ Len(call[1].res.ev[1].oldLines[1]) = 3
  /\ \E l \in 1..Len(call[1].res.ev[1].newLines[1]) :
       Len(call[1].res.ev[1].newLines[1][l]) = 70


\* line l of content as the preview shows it: whole when it has at most 70
\* characters, else 70 characters that begin with its first 67
IsShownLine(entry, l) ==
  IF Len(l) <= 70 THEN entry = l
  ELSE Len(entry) = 70 /\ SubSeq(entry, 1, 67) = SubSeq(l, 1, 67)

\* side is absent for an empty content, and else the first min(maxLines, n)
\* of the n lines of content, in order
IsPreviewOf(side, content, maxLines) ==
  IF content = <<>> THEN side = None
  ELSE LET ls == split(content)
       IN /\ side # None
          /\ Len(side[1]) = (IF maxLines < Len(ls) THEN maxLines ELSE Len(ls))
          /\ \A i \in 1..Len(side[1]) : IsShownLine(side[1][i], ls[i])

\* the first string among the given fields of input (the empty string when
\* all are missing or empty)
FirstText(input, keys) ==
  IF keys = <<>> THEN <<>>
  ELSE LET hits == { i \in 1..Len(keys) : Truthy(Get(input, keys[i])) }
       IN IF hits = {} THEN <<>>
          ELSE Get(input, keys[CHOOSE i \in hits : \A j \in hits : i <= j]).s

\* C17: createDiff returns undefined exactly when old and new content are
\* both empty; otherwise each side is the first min(maxLines, n) lines of its
\* own content, in order and each truncated on its own, whatever the other
\* side is; and a write or edit tool call yields an event also when its diff
\* is undefined.
C17_DiffSidesIndependent ==
  /\ (call # None /\ call[1].fn = "createDiff") =>
       /\ call[1].res.k = "return"
       /\ call[1].res.ev = None <=>
            (call[1].oldContent.s = <<>> /\ call[1].newContent.s = <<>>)
       /\ call[1].res.ev # None =>
            /\ IsPreviewOf(call[1].res.ev[1].oldLines, call[1].oldContent.s, call[1].maxLines)
            /\ IsPreviewOf(call[1].res.ev[1].newLines, call[1].newContent.s, call[1].maxLines)
  /\ \A i \in DOMAIN log :
       IsWriteCall(log[i].line) =>
         LET input == Get(Get(log[i].line.json, "part"), "input")
             old == FirstText(input, <<"old_string", "oldString">>)
             new == FirstText(input, <<"content", "new_string", "newString">>)
         IN /\ log[i].ev # None
            /\ log[i].ev[1].step \in {"Implementing", "Writing tests"}
            /\ log[i].ev[1].diff = None <=> (old = <<>> /\ new = <<>>)
            /\ log[i].ev[1].diff # None =>
                 /\ IsPreviewOf(log[i].ev[1].diff[1].oldLines, old, 4)
                 /\ IsPreviewOf(log[i].ev[1].diff[1].newLines, new, 4)

\* a write without content gave an Implementing event with no diff, and then
\* an edit from one line to six lines gave a diff of one old line and four new
\* lines
C17_Witness ==
  /\ Len(log) = 2
  /\ IsWriteCall(log[1].line) /\ log[1].ev # None
  /\ log[1].ev[1].step = "Implementing" /\ log[1].ev[1].diff = None
  /\ IsWriteCall(log[2].line) /\ log[2].ev # None /\ log[2].ev[1].diff # None
  /\ log[2].ev[1].diff[1].oldLines # None /\ Len(log[2].ev[1].diff[1].oldLines[1]) = 1
  /\ log[2].ev[1].diff[1].newLines # None /\ Len(log[2].ev[1].diff[1].newLines[1]) = 4


(***************************************************************************)
(* Captured outputs: terminal, text and error events, plain text, blank    *)
(* lines, and outputs of more than twelve lines                            *)
(***************************************************************************)
\* a line of the output: its text (abbreviated for JSON) and its JSON value
OutputLine(text, parsed) == [text |-> text, json |-> parsed]

\* the lines a process writes that reach the onLine callback
EventLines ==
  { OutputLine(<<"{","s","t","e","p","_","f","i","n","i","s","h"," ","1","0","/","5"," ","c","o","s","t"," ","2","}">>,
      Obj([type |-> Str(<<"s","t","e","p","_","f","i","n","i","s","h">>),
           part |-> Obj([tokens |-> Obj([input |-> Num(10), output |-> Num(5)]),
                         cost |-> Num(2)])])),
    OutputLine(<<"{","s","t","e","p","_","f","i","n","i","s","h"," ","3","/","1","}">>,
      Obj([type |-> Str(<<"s","t","e","p","_","f","i","n","i","s","h">>),
           part |-> Obj([tokens |-> Obj([input |-> Num(3), output |-> Num(1)])])])),
    OutputLine(<<"{","s","t","e","p","_","f","i","n","i","s","h","}">>, Obj([type |-> Str(<<"s","t","e","p","_","f","i","n","i","s","h">>)])),
    OutputLine(<<"{","t","e","x","t"," ","d","o","n","e","}">>,
      Obj([type |-> Str(<<"t","e","x","t">>), part |-> Obj([text |-> Str(<<"d","o","n","e">>)])])),
    OutputLine(<<"{","e","r","r","o","r"," ","b","o","o","m","}">>,
      Obj([type |-> Str(<<"e","r","r","o","r">>), error |-> Obj([message |-> Str(<<"b","o","o","m">>)])])),
    OutputLine(<<"{","e","r","r","o","r"," ","b","a","d","}">>, Obj([type |-> Str(<<"e","r","r","o","r">>), message |-> Str(<<"b","a","d">>)])),
    OutputLine(<<"{","e","r","r","o","r","}">>, Obj([type |-> Str(<<"e","r","r","o","r">>)])),
    OutputLine(<<"n","u","l","l">>, Null),
    TextLine(<<"b","u","i","l","d"," ","f","a","i","l","e","d">>) }

\* the lines of a stream-json output
StreamJsonLines ==
  { OutputLine(<<"{","r","e","s","u","l","t"," ","o","k"," ","7","/","2","}">>,
      Obj([type |-> Str(<<"r","e","s","u","l","t">>), result |-> Str(<<"o","k">>),
           usage |-> Obj([input_tokens |-> Num(7), output_tokens |-> Num(2)])])),
    OutputLine(<<"{","r","e","s","u","l","t"," ","4","/","0","}">>,
      Obj([type |-> Str(<<"r","e","s","u","l","t">>), usage |-> Obj([input_tokens |-> Num(4)])])),
    OutputLine(<<"{","r","e","s","u","l","t","}">>, Obj([type |-> Str(<<"r","e","s","u","l","t">>)])),
    OutputLine(<<"{","a","s","s","i","s","t","a","n","t","}">>, Obj([type |-> Str(<<"a","s","s","i","s","t","a","n","t">>)])),
    TextLine(<<"w","a","r","n","i","n","g">>), TextLine(<<>>) }

\* the lines of a buffered output: also empty and blank lines
BufferedLines == EventLines \cup { TextLine(<<>>), TextLine(<<" "," ">>) }

\* the exit codes of the process
ExitCodes == {0, 1, 137}

\* the length of the captured outputs of SpecResult
MaxOut == 2

\* the outputs of up to MaxOut lines
Outputs == UNION { [1..n -> BufferedLines] : n \in 0..MaxOut }

StreamJsonOutputs == UNION { [1..n -> StreamJsonLines] : n \in 0..MaxOut }

\* outputs of twelve to fourteen plain lines l1, l2, ..., bare and with blank
\* lines around and between them
LongOutputs ==
  LET plain(n) == [i \in 1..n |-> TextLine(<<"l">> \o NatToString(i))]
  IN { plain(n) : n \in {12, 13, 14} }
       \cup { << TextLine(<<" "," ">>), TextLine(<<>>) >> \o SubSeq(plain(n), 1, 2)
                \o << TextLine(<<>>), TextLine(<<" ">>) >> \o SubSeq(plain(n), 3, n)
                \o << TextLine(<<>>) >> : n \in {12, 13} }

\* one streaming execution and its result, or one call of execute or of
\* parseStreamJsonResult on a captured output
NextResult ==
  \/ call = None /\ StartExecution(1, "e1")
  \/ \E line \in EventLines : Len(log) < MaxOut /\ call = None /\ OnLine(1, line)
  \/ \E exitCode \in ExitCodes : Finish(1, exitCode)
  \/ \E output \in Outputs \cup LongOutputs, exitCode \in ExitCodes : Execute(output, exitCode)
  \/ \E output \in StreamJsonOutputs : ParseStreamJsonResult(output)

SpecResult == Init /\ [][NextResult]_vars


\* the line is a structured event of the given type
IsEventOf(line, type) ==
  line.json.t = "object" /\ StrictEq(Get(line.json, "type"), type)

\* there is such an event in the output
HasEvent(output, type) == \E i \in DOMAIN output : IsEventOf(output[i], type)

\* the last such event of the output
LastEvent(output, type) ==
  output[CHOOSE i \in DOMAIN output :
           /\ IsEventOf(output[i], type)
           /\ \A j \in DOMAIN output : IsEventOf(output[j], type) => j <= i].json

\* a count as aggregated: the value of the event, 0 when the event omits it
CountOf(v) == IF v.t = "number" THEN v ELSE Num(0)

\* the result of an OpenCode output holds the tokens of its last step_finish
\* event, and with exit code 0 its cost and no other
IsOfLastStepFinish(res, output, exitCode) ==
  LET part == Get(LastEvent(output, <<"s","t","e","p","_","f","i","n","i","s","h">>), "part")
  IN /\ res.inputTokens = CountOf(Get(Get(part, "tokens"), "input"))
     /\ res.outputTokens = CountOf(Get(Get(part, "tokens"), "output"))
     /\ exitCode = 0 =>
          res.cost = (IF Get(part, "cost").t = "number"
                        THEN Some(NatToString(Get(part, "cost").n)) ELSE None)

\* C18: last write wins.  When the output contains several terminal events
\* (result for parseStreamJsonResult, step_finish for parseOutput) the
\* aggregated input tokens, output tokens and cost are those of the last
\* terminal event; no value of an earlier one survives, also when the last
\* event omits a field.
C18_LastTerminalEventWins ==
  /\ (call # None /\ call[1].fn = "parseStreamJsonResult"
        /\ HasEvent(call[1].output, <<"r","e","s","u","l","t">>)) =>
       LET usage == Get(LastEvent(call[1].output, <<"r","e","s","u","l","t">>), "usage")
       IN /\ call[1].res.inputTokens = CountOf(Get(usage, "input_tokens"))
          /\ call[1].res.outputTokens = CountOf(Get(usage, "output_tokens"))
  /\ (call # None /\ call[1].fn = "execute"
        /\ HasEvent(call[1].output, <<"s","t","e","p","_","f","i","n","i","s","h">>)
        /\ ~HasEvent(call[1].output, <<"e","r","r","o","r">>)) =>
       IsOfLastStepFinish(call[1].res, call[1].output, call[1].exitCode)
  /\ \A r \in Runs :
       (result[r] # None /\ HasEvent(outputLines[r], <<"s","t","e","p","_","f","i","n","i","s","h">>)
          /\ ~HasEvent(outputLines[r], <<"e","r","r","o","r">>)) =>
         IsOfLastStepFinish(result[r][1].res, outputLines[r], result[r][1].exitCode)


\* the message an error event supplies: error.message, else message, and
\* 'Unknown error' when it supplies none
MessageOf(parsed) ==
  IF IsStr(Get(Get(parsed, "error"), "message")) THEN Get(Get(parsed, "error"), "message")
  ELSE IF IsStr(Get(parsed, "message")) THEN Get(parsed, "message")
  ELSE Str(<<"U","n","k","n","o","w","n"," ","e","r","r","o","r">>)

\* the failure returned for an output with an error event: the message of an
\* error event of the output, an empty response, zero tokens, no cost
IsErrorResult(res, output) ==
  /\ res.success = FALSE
  /\ \E i \in DOMAIN output :
       /\ IsEventOf(output[i], <<"e","r","r","o","r">>)
       /\ res.error = Some(MessageOf(output[i].json))
  /\ res.response = Str(<<>>)
  /\ res.inputTokens = Num(0) /\ res.outputTokens = Num(0)
  /\ res.cost = None

\* C19: error short-circuit.  If a line of the captured output is an event of
\* type error, execute and executeStreaming return success=false with the
\* message of the event as error, an empty response and zero input and output
\* tokens, whatever the exit code and whatever other events the output has
\* (the error is 'Unknown error' when the event has no message).
C19_ErrorShortCircuit ==
  /\ (call # None /\ call[1].fn = "execute" /\ HasEvent(call[1].output, <<"e","r","r","o","r">>)) =>
       IsErrorResult(call[1].res, call[1].output)
  /\ \A r \in Runs :
       (result[r] # None /\ HasEvent(outputLines[r], <<"e","r","r","o","r">>)) =>
         IsErrorResult(result[r][1].res, outputLines[r])

\* a streaming execution delivered a step_finish event with tokens and then
\* an error event, exited with code 0, and returned the failure 'boom'
C19_Witness ==
  /\ result[1] # None /\ result[1][1].exitCode = 0
  /\ Len(outputLines[1]) = 2
  /\ IsEventOf(outputLines[1][1], <<"s","t","e","p","_","f","i","n","i","s","h">>)
  /\ Get(Get(outputLines[1][1].json, "part"), "tokens") # Undef
  /\ IsEventOf(outputLines[1][2], <<"e","r","r","o","r">>)
  /\ result[1][1].res.success = FALSE
  /\ result[1][1].res.error = Some(Str(<<"b","o","o","m">>))
  /\ result[1][1].res.inputTokens = Num(0)


\* the line has a character that is not white space
IsNonBlank(text) == \E i \in 1..Len(text) : ~IsSpace(text[i])

\* the texts of the lines of the output that are not blank, in order
NonBlankLines(output) ==
  LET kept == SelectSeq(output, LAMBDA l : IsNonBlank(l.text))
  IN [i \in 1..Len(kept) |-> kept[i].text]

\* shown is the tail of lines
IsTailOf(shown, lines) ==
  Len(shown) <= Len(lines)
    /\ shown = SubSeq(lines, Len(lines) - Len(shown) + 1, Len(lines))

\* the failure returned for a nonzero exit: the error names the exit code,
\* alone when the output is blank, and else followed by the last lines of the
\* output that are not blank, in order and at most 12 (all of them when the
\* output has at most 12 lines, 12 when it has more and no blank line)
IsExitFailure(res, output, exitCode) ==
  /\ res.success = FALSE
  /\ res.error # None /\ IsStr(res.error[1])
  /\ LET message == split(res.error[1].s)
         shown == SelectSeq(Tail(message), IsNonBlank)
         lines == NonBlankLines(output)
     IN /\ includes(message[1], <<"e","x","i","t"," ","c","o","d","e"," ">> \o NatToString(exitCode))
        /\ lines = <<>> => Len(message) = 1
        /\ lines # <<>> =>
             /\ shown # <<>> /\ Len(shown) <= 12
             /\ IsTailOf(shown, lines)
             /\ Len(output) <= 12 => shown = lines
             /\ Len(lines) = Len(output) =>
                  Len(shown) = (IF Len(lines) < 12 THEN Len(lines) ELSE 12)

\* C20: a nonzero exit without an error event is a failure whose error holds
\* the last non-empty output lines (at most 12, in order) and names the exit
\* code alone when the output is blank; a result has success=true only when
\* the exit code is 0 and no error event is in the output.
C20_NonzeroExitFails ==
  /\ (call # None /\ call[1].fn = "execute") =>
       /\ (call[1].exitCode # 0 /\ ~HasEvent(call[1].output, <<"e","r","r","o","r">>)) =>
            IsExitFailure(call[1].res, call[1].output, call[1].exitCode)
       /\ call[1].res.success =>
            (call[1].exitCode = 0 /\ ~HasEvent(call[1].output, <<"e","r","r","o","r">>))
  /\ \A r \in Runs :
       result[r] # None =>
         /\ (result[r][1].exitCode # 0 /\ ~HasEvent(outputLines[r], <<"e","r","r","o","r">>)) =>
              IsExitFailure(result[r][1].res, outputLines[r], result[r][1].exitCode)
         /\ result[r][1].res.success =>
              (result[r][1].exitCode = 0 /\ ~HasEvent(outputLines[r], <<"e","r","r","o","r">>))

\* a streaming execution delivered a step_finish event and 'build failed',
\* exited with code 1, and returned a failure whose error ends with
\* 'build failed'
C20_Witness ==
  /\ result[1] # None /\ result[1][1].exitCode = 1
  /\ Len(outputLines[1]) = 2
  /\ IsEventOf(outputLines[1][1], <<"s","t","e","p","_","f","i","n","i","s","h">>)
  /\ outputLines[1][2] = TextLine(<<"b","u","i","l","d"," ","f","a","i","l","e","d">>)
  /\ result[1][1].res.success = FALSE
  /\ result[1][1].res.error # None
  /\ endsWith(result[1][1].res.error[1].s, <<"b","u","i","l","d"," ","f","a","i","l","e","d">>)
  /\ result[1][1].res.inputTokens # Num(0)


(***************************************************************************)
(* execCommandStreaming: the two output channels of the child process.     *)
(* A channel carries bytes; one character of two bytes (C3 A9) stands for  *)
(* the characters outside ASCII, U+FFFD is the replacement character.      *)
(***************************************************************************)
Channels == {"stdout", "stderr"}

\* UTF-8 decoding of a byte sequence; an incomplete character at the end is
\* withheld when stream is TRUE and replaced otherwise
utf8(bytes, stream) ==
  LET n == Len(bytes)
      piece(i) ==
        IF bytes[i] = "C3"
          THEN IF i < n /\ bytes[i + 1] = "A9" THEN "U+00E9"
               ELSE IF i = n /\ stream THEN "" ELSE "U+FFFD"
        ELSE IF bytes[i] = "A9"
          THEN IF i > 1 /\ bytes[i - 1] = "C3" THEN "" ELSE "U+FFFD"
        ELSE bytes[i]
  IN SelectSeq([i \in 1..n |-> piece(i)], LAMBDA c : c # "")

\* decoder.decode(value, { stream: true }) of a decoder holding the bytes held
TextDecoder_decode(held, value) ==
  LET bytes == held \o value
  IN [text |-> utf8(bytes, TRUE),
      held |-> IF bytes # <<>> /\ bytes[Len(bytes)] = "C3" THEN <<"C3">> ELSE <<>>]

\* data.toString() of one Buffer
toString(data) == utf8(data, FALSE)

\* the complete lines of the buffer that are passed to onLine, and the rest
processBuffer(buffer) ==
  LET lines == split(buffer)
      n == Len(lines)
  IN [lines |-> SelectSeq(SubSeq(lines, 1, n - 1), LAMBDA line : trim(line) # <<>>),
      remaining |-> lines[n]]

\* if (buffer.trim()) onLine(buffer)
flush(buffer) == IF trim(buffer) # <<>> THEN <<buffer>> ELSE <<>>

\* Promise.race in the place of Promise.all
PromiseRace(done) == \E ch \in Channels : done[ch]

\* Promise.all([readStream(proc.stdout, ..), readStream(proc.stderr, ..)])
PromiseAll(done) == \A ch \in Channels : done[ch]

\* {"type":"step_start"}
StepStartText == <<"{","\"","t","y","p","e","\"",":","\"","s","t","e","p","_","s","t","a","r","t","\"","}">>

\* a delivered line with what JSON.parse makes of the texts the channels carry
Line(text) ==
  [text |-> text,
   json |-> IF trim(text) = StepStartText
              THEN Obj([type |-> Str(<<"s","t","e","p","_","s","t","a","r","t">>)])
            ELSE IF trim(text) = <<"{","}">> THEN EmptyObj
            ELSE SyntaxError]

\* outputLines.push(line) and, with out the outcome of detectStepFromLine,
\* if (stepInfo) { onProgress(stepInfo); }
pushed(st, line, out) ==
  IF out.k = "throw"
    THEN [st EXCEPT !.outputLines = Append(@, line), !.thrown = TRUE,
                    !.log = Append(@, [run |-> 1, engine |-> runEngine[1], line |-> line,
                                       before |-> st.todos, after |-> st.todos,
                                       ev |-> None])]
    ELSE [st EXCEPT !.outputLines = Append(@, line), !.todos = out.todos,
                    !.progress = deliver(@, out.ev),
                    !.log = Append(@, [run |-> 1, engine |-> runEngine[1], line |-> line,
                                       before |-> st.todos, after |-> out.todos,
                                       ev |-> out.ev])]

\* the callback given to execCommandStreaming, applied to one line
callback(st, line) ==
  IF st.thrown THEN st ELSE pushed(st, line, detectStepFromLine(line, st.todos))

RECURSIVE callbacks(_, _)
callbacks(st, texts) ==
  IF texts = <<>> THEN st ELSE callbacks(callback(st, Line(Head(texts))), Tail(texts))

\* the locals and fields that the callback has changed
assigned(st) ==
  /\ outputLines' = [outputLines EXCEPT ![1] = st.outputLines]
  /\ currentTodos' = [currentTodos EXCEPT ![runEngine[1]] = st.todos]
  /\ progress' = [progress EXCEPT ![1] = st.progress]
  /\ log' = st.log
  /\ runState' = IF st.thrown THEN [runState EXCEPT ![1] = "aborted"] ELSE runState

\* onLine called on each of the texts, one after the other
onLine(texts) ==
  assigned(callbacks([outputLines |-> outputLines[1], todos |-> currentTodos[runEngine[1]],
                      progress |-> progress[1], log |-> log, thrown |-> FALSE], texts))

\* history: the onLine calls made for the channel, in order
called(calls, ch, texts) == calls \o [i \in 1..Len(texts) |-> [ch |-> ch, text |-> texts[i]]]

\* the bytes the child writes to stdout and to stderr
ChannelBytes ==
  { [stdout |-> <<"a","b","\n","c","d">>, stderr |-> <<"e","\n">>],
    [stdout |-> StepStartText \o <<"\n">>, stderr |-> <<"w">>],
    [stdout |-> <<"C3", "A9", "\n">>, stderr |-> <<"x">>],
    [stdout |-> <<"a","\n"," ","\n","\n","b","\n">>, stderr |-> <<>>],
    [stdout |-> <<>>, stderr |-> <<>>] }

\* a chunk holds at most MaxChunk bytes, or all the bytes not yet read
MaxChunk == 2

ChunkSizes(pending) == { n \in 1..Len(pending) : n <= MaxChunk \/ n = Len(pending) }

\* the exit codes of the child; null when a signal ended it
CloseCodes == {Num(0), Num(1), Null}

\* Bun.spawn, or spawn of node:child_process, which may fail to start the child
Spawn(path, bytes, ok) ==
  /\ runState[1] = "running"
  /\ proc = None
  /\ path = "bun" => ok
  /\ proc' = Some([path |-> path, spawned |-> ok, errored |-> FALSE, closed |-> FALSE,
                   stream |-> IF ok THEN bytes ELSE [ch \in Channels |-> <<>>],
                   pending |-> IF ok THEN bytes ELSE [ch \in Channels |-> <<>>],
                   held |-> [ch \in Channels |-> <<>>],
                   buffer |-> [ch \in Channels |-> <<>>],
                   done |-> [ch \in Channels |-> FALSE],
                   resolved |-> None, calls |-> <<>>])
  /\ UNCHANGED <<currentTodos, runState, runEngine, outputLines, progress, startTodos,
                 startAlone, log, stepInfo, result, call, spinner>>

\* readStream: one turn of the loop, reader.read() gave a chunk of n bytes
ReadChunk(ch) ==
  /\ proc # None
  /\ LET p == proc[1]
     IN /\ p.path = "bun" /\ ~p.done[ch]
        /\ \E n \in ChunkSizes(p.pending[ch]) :
           LET decoded == TextDecoder_decode(p.held[ch], SubSeq(p.pending[ch], 1, n))
               lines == processBuffer(p.buffer[ch] \o decoded.text)
           IN /\ onLine(lines.lines)
              /\ proc' = Some([p EXCEPT !.pending[ch] = SubSeq(@, n + 1, Len(@)),
                                        !.held[ch] = decoded.held,
                                        !.buffer[ch] = lines.remaining,
                                        !.calls = called(@, ch, lines.lines)])
  /\ UNCHANGED <<runEngine, startTodos, startAlone, stepInfo, result, call, spinner>>

\* readStream: reader.read() gave done, the rest of the buffer is passed on
ReadDone(ch) ==
  /\ proc # None
  /\ LET p == proc[1]
     IN /\ p.path = "bun" /\ ~p.done[ch]
        /\ p.pending[ch] = <<>>
        /\ onLine(flush(p.buffer[ch]))
        /\ proc' = Some([p EXCEPT !.done[ch] = TRUE,
                                  !.calls = called(@, ch, flush(p.buffer[ch]))])
  /\ UNCHANGED <<runEngine, startTodos, startAlone, stepInfo, result, call, spinner>>

\* both readers are done, proc.exited gives the exit code
Exited(exitCode) ==
  /\ proc # None
  /\ LET p == proc[1]
     IN /\ p.path = "bun" /\ p.resolved = None
        /\ PromiseAll(p.done)
        /\ proc' = Some([p EXCEPT !.resolved = Some(exitCode)])
  /\ UNCHANGED <<currentTodos, runState, runEngine, outputLines, progress, startTodos,
                 startAlone, log, stepInfo, result, call, spinner>>

\* the 'data' handler of one channel, called with a Buffer of n bytes
OnData(ch) ==
  /\ proc # None
  /\ LET p == proc[1]
     IN /\ p.path = "node" /\ ~p.closed
        /\ \E n \in ChunkSizes(p.pending[ch]) :
           LET lines == processBuffer(p.buffer[ch] \o toString(SubSeq(p.pending[ch], 1, n)))
           IN /\ onLine(lines.lines)
              /\ proc' = Some([p EXCEPT !.pending[ch] = SubSeq(@, n + 1, Len(@)),
                                        !.buffer[ch] = lines.remaining,
                                        !.calls = called(@, ch, lines.lines)])
  /\ UNCHANGED <<runEngine, startTodos, startAlone, stepInfo, result, call, spinner>>

\* the 'close' handler: the child has ended and both channels are closed
OnClose(exitCode) ==
  /\ proc # None
  /\ LET p == proc[1]
         texts == flush(p.buffer["stdout"]) \o flush(p.buffer["stderr"])
     IN /\ p.path = "node" /\ ~p.closed
        /\ p.spawned \/ p.errored
        /\ \A ch \in Channels : p.pending[ch] = <<>>
        /\ onLine(texts)
        /\ proc' = Some([p EXCEPT !.closed = TRUE,
                                  !.resolved = IF @ # None THEN @
                                               ELSE IF exitCode = Null THEN Some(1)
                                               ELSE Some(exitCode.n),
                                  !.calls = called(called(@, "stdout", flush(p.buffer["stdout"])),
                                                   "stderr", flush(p.buffer["stderr"]))])
  /\ UNCHANGED <<runEngine, startTodos, startAlone, stepInfo, result, call, spinner>>

\* `Spawn error: ${err.message}`
SpawnError == <<"S","p","a","w","n"," ","e","r","r","o","r",":"," ","E","N","O","E","N","T">>

\* the 'error' handler: the child could not be started
OnError ==
  /\ proc # None
  /\ LET p == proc[1]
     IN /\ p.path = "node" /\ ~p.spawned /\ ~p.errored
        /\ onLine(<<SpawnError>>)
        /\ proc' = Some([p EXCEPT !.errored = TRUE,
                                  !.resolved = IF @ # None THEN @ ELSE Some(1),
                                  !.calls = called(@, "spawn", <<SpawnError>>)])
  /\ UNCHANGED <<runEngine, startTodos, startAlone, stepInfo, result, call, spinner>>

\* executeStreaming goes on after the await: it joins outputLines and returns
Join ==
  /\ proc # None
  /\ proc[1].resolved # None
  /\ Finish(1, proc[1].resolved[1])

\* one execution whose child writes to both channels, the bytes arriving in
\* chunks of any sizes and in any order across the channels
NextDeliver ==
  \/ StartExecution(1, "e1")
  \/ \E path \in {"bun", "node"}, bytes \in ChannelBytes, ok \in BOOLEAN : Spawn(path, bytes, ok)
  \/ \E ch \in Channels : ReadChunk(ch)
  \/ \E ch \in Channels : ReadDone(ch)
  \/ \E exitCode \in {0, 1} : Exited(exitCode)
  \/ \E ch \in Channels : OnData(ch)
  \/ \E exitCode \in CloseCodes : OnClose(exitCode)
  \/ OnError
  \/ Join

SpecDeliver == Init /\ [][NextDeliver]_vars


\* the non-blank lines of the text that a channel's bytes encode
LinesOf(bytes) == SelectSeq(split(utf8(bytes, FALSE)), LAMBDA line : trim(line) # <<>>)

\* the texts passed to onLine for the channel, in the order of the calls
CallsFor(calls, ch) ==
  LET mine == SelectSeq(calls, LAMBDA c : c.ch = ch)
  IN [i \in 1..Len(mine) |-> mine[i].text]

IsPrefixOf(a, b) == Len(a) <= Len(b) /\ a = SubSeq(b, 1, Len(a))

\* both channels have ended and what was left in their buffers was passed on
IsFlushed(p) == IF p.path = "bun" THEN PromiseAll(p.done) ELSE p.closed

\* C21: line delivery from the two output channels: however the bytes of a
\* channel are cut into chunks and however the chunks of the two channels
\* interleave, the texts passed to onLine for a channel are, in order and each
\* exactly once and whole, the non-blank lines of that channel (its last line
\* without a newline included): at every moment the calls made so far are the
\* first lines of the channel, and once both channels have ended and were
\* flushed they are all of them.
C21_LinesDeliveredOnce ==
  proc # None =>
    \A ch \in Channels :
      /\ IsPrefixOf(CallsFor(proc[1].calls, ch), LinesOf(proc[1].stream[ch]))
      /\ IsFlushed(proc[1]) => CallsFor(proc[1].calls, ch) = LinesOf(proc[1].stream[ch])


\* C22: the aggregated result is computed over every line that is ever
\* delivered: once executeStreaming has joined the buffered lines and returned
\* its result, onLine is not called again (no line is buffered, the classifier
\* is not run and no progress event is emitted), and the result returned is
\* the aggregation of all the buffered lines with the exit code, on the Bun
\* path and on the Node path, the 'error' handler included.
C22_NoLineAfterJoin ==
  [][ /\ result[1] # None =>
           outputLines' = outputLines /\ progress' = progress /\ log' = log
      /\ result'[1] # None =>
           result'[1][1].res = aggregate(outputLines'[1], result'[1][1].exitCode) ]_vars

\* C22 witness: on the Node path the result was returned after the last line
\* of stdout, which has no newline, was passed on by the 'close' handler, and
\* the lines of both channels are in the joined output
C22_Witness ==
  /\ proc # None /\ proc[1].path = "node" /\ proc[1].closed
  /\ result[1] # None
  /\ Len(outputLines[1]) = 3
  /\ outputLines[1][3].text = <<"c","d">>
  /\ \E i \in 1..2 : outputLines[1][i].text = <<"e">>


(***************************************************************************)
(* One tool invocation given to both classifiers: as a tool_call line of   *)
(* the OpenCode backend and as a tool_use item of an assistant message     *)
(***************************************************************************)
ToolNames ==
  { <<"r","e","a","d">>, <<"G","r","e","p">>, <<"w","r","i","t","e">>, <<"E","d","i","t">>, <<"b","a","s","h">>, <<"B","a","s","h">>, <<"l","s">>, <<"t","o","d","o","w","r","i","t","e">> }

ToolPaths ==
  { <<>>, <<"s","r","c","/","a",".","t","s">>, <<"s","r","c","/","a",".","t","e","s","t",".","t","s">>, <<"p","k","g","/","f","o","o","_","t","e","s","t",".","g","o">>, <<"_","_","t","e","s","t","s","_","_","/","a",".","j","s">> }

ToolCommands ==
  { <<>>, <<"l","s">>, <<"n","p","m"," ","t","e","s","t">>, <<"n","p","m"," ","r","u","n"," ","l","a","t","e","s","t">>, <<"p","r","e","t","t","i","e","r"," ","-","-","c","h","e","c","k"," ",".">>,
    <<"n","p","m"," ","r","u","n"," ","l","i","n","t">>, <<"g","i","t"," ","c","o","m","m","i","t"," ","-","m"," ","x">>, <<"g","i","t"," ","a","d","d"," ",".">> }

\* input: { file_path, command }
ToolInput(filePath, command) == Obj([file_path |-> Str(filePath), command |-> Str(command)])

\* OpenCodeEngine.detectStepFromLine of a new engine object and
\* detectStepFromOutput, each called on the line of its backend
ClassifyBoth(name, filePath, command) ==
  /\ NothingRun
  /\ call' = Some([fn |-> "classify", name |-> name, filePath |-> filePath,
                   command |-> command,
                   line |-> detectStepFromLine(
                              ToolCallLine(Str(name), ToolInput(filePath, command)), <<>>),
                   output |-> detectStepFromOutput(
                                AssistantLine(<<ToolUse(Str(name), ToolInput(filePath, command))>>))])
  /\ UNCHANGED <<currentTodos, runState, runEngine, outputLines, progress, startTodos,
                 startAlone, log, stepInfo, result, proc, spinner>>

NextAgree ==
  \E name \in ToolNames, filePath \in ToolPaths, command \in ToolCommands :
    ClassifyBoth(name, filePath, command)

SpecAgree == Init /\ [][NextAgree]_vars

\* C23: the two step classifiers agree: for a tool name, file path and
\* command, OpenCodeEngine.detectStepFromLine on the tool_call line and
\* detectStepFromOutput on a line with the same tool name, file path and
\* command give the same step, or both give no event.
C23_ClassifiersAgree ==
  (call # None /\ call[1].fn = "classify") =>
    StepOf(call[1].line.ev) = StepOf(call[1].output.ev)


(***************************************************************************)
(* ProgressSpinner.  The record holds the fields of the object, then the   *)
(* clock (Date.now) and the armed intervals of the runtime, then history:  *)
(* the numbers of setInterval calls, of ticks and of updateStep calls, and *)
(* which of success, error and stop was called first, and when.  The text  *)
(* shown by the nanospinner is not part of it.                             *)
(***************************************************************************)
MaxSteps == 3
MaxNow == 2
MaxTicks == 1

\* { name, startTime } with endTime not set
OperationTiming(name, startTime) == [name |-> name, startTime |-> startTime, endTime |-> None]

\* new ProgressSpinner(task): the clock read t at line 42 and now at line 43
constructor(task, t, now) ==
  [task |-> truncate(task, 40), startTime |-> t, stepStartTime |-> now,
   currentStep |-> "Thinking", tickInterval |-> Some(1),
   stepHistory |-> <<OperationTiming("Thinking", now)>>,
   toolOutput |-> Null, codeSnippet |-> Null, diff |-> Null, todos |-> Arr(<<>>),
   now |-> now, timers |-> {1},
   armed |-> 1, ticks |-> 0, updates |-> 0,
   ended |-> FALSE, endedBy |-> "none", endedAt |-> 0]

\* !lastStep.endTime
notEnded(lastStep) == lastStep.endTime = None \/ lastStep.endTime = Some(0)

\* updateStep that does not close the previous step
updateStepNoClose(s, step) ==
  [s EXCEPT !.currentStep = step, !.stepStartTime = s.now,
            !.stepHistory = Append(@, OperationTiming(step, s.now)),
            !.updates = @ + 1]

\* updateStep(step)
updateStep(s, step) ==
  LET n == Len(s.stepHistory)
      closed == IF n > 0 /\ notEnded(s.stepHistory[n])
                  THEN [s.stepHistory EXCEPT ![n].endTime = Some(s.now)]
                  ELSE s.stepHistory
  IN [s EXCEPT !.currentStep = step, !.stepStartTime = s.now,
               !.stepHistory = Append(closed, OperationTiming(step, s.now)),
               !.updates = @ + 1]

\* updateToolOutput(output, codeSnippet, diff, todos)
updateToolOutput(s, output, codeSnippet, diff, todos) ==
  [s EXCEPT !.toolOutput = output, !.codeSnippet = Or(codeSnippet, Null),
            !.diff = Or(diff, Null), !.todos = IF Truthy(todos) THEN todos ELSE @]

\* clearTickInterval without the call of clearInterval
clearTickIntervalOnlyNull(s) == [s EXCEPT !.tickInterval = None]

\* clearTickInterval()
clearTickInterval(s) ==
  IF s.tickInterval # None
    THEN [s EXCEPT !.timers = @ \ {s.tickInterval[1]}, !.tickInterval = None]
    ELSE s

\* what success, error and stop do to the object
finish(s, method) ==
  [clearTickInterval(s) EXCEPT !.ended = TRUE,
                               !.endedBy = IF s.ended THEN @ ELSE method,
                               !.endedAt = IF s.ended THEN @ ELSE s.updates]

Tasks == { <<"f","i","x">>, [i \in 1..41 |-> "t"] }

Steps == {"Reading code", "Testing"}

Construct(task, d) ==
  /\ NothingRun /\ proc = None
  /\ spinner = None
  /\ spinner' = Some(constructor(task, 0, d))
  /\ UNCHANGED <<currentTodos, runState, runEngine, outputLines, progress, startTodos,
                 startAlone, log, stepInfo, result, call, proc>>

\* the clock of the runtime advances
Elapse ==
  /\ spinner # None
  /\ spinner[1].now < MaxNow
  /\ spinner' = Some([spinner[1] EXCEPT !.now = @ + 1])
  /\ UNCHANGED <<currentTodos, runState, runEngine, outputLines, progress, startTodos,
                 startAlone, log, stepInfo, result, call, proc>>

\* an armed interval fires: () => this.tick()
Tick ==
  /\ spinner # None
  /\ spinner[1].timers # {}
  /\ spinner[1].ticks < MaxTicks
  /\ spinner' = Some([spinner[1] EXCEPT !.ticks = @ + 1])
  /\ UNCHANGED <<currentTodos, runState, runEngine, outputLines, progress, startTodos,
                 startAlone, log, stepInfo, result, call, proc>>

UpdateStep(step) ==
  /\ spinner # None
  /\ spinner[1].updates < MaxSteps
  /\ spinner' = Some(updateStep(spinner[1], step))
  /\ UNCHANGED <<currentTodos, runState, runEngine, outputLines, progress, startTodos,
                 startAlone, log, stepInfo, result, call, proc>>

UpdateToolOutput(output, todos) ==
  /\ spinner # None
  /\ spinner' = Some(updateToolOutput(spinner[1], output, Undef, Undef, todos))
  /\ UNCHANGED <<currentTodos, runState, runEngine, outputLines, progress, startTodos,
                 startAlone, log, stepInfo, result, call, proc>>

Success ==
  /\ spinner # None
  /\ spinner' = Some(finish(spinner[1], "success"))
  /\ UNCHANGED <<currentTodos, runState, runEngine, outputLines, progress, startTodos,
                 startAlone, log, stepInfo, result, call, proc>>

Error ==
  /\ spinner # None
  /\ spinner' = Some(finish(spinner[1], "error"))
  /\ UNCHANGED <<currentTodos, runState, runEngine, outputLines, progress, startTodos,
                 startAlone, log, stepInfo, result, call, proc>>

Stop ==
  /\ spinner # None
  /\ spinner' = Some(finish(spinner[1], "stop"))
  /\ UNCHANGED <<currentTodos, runState, runEngine, outputLines, progress, startTodos,
                 startAlone, log, stepInfo, result, call, proc>>

NextSpinner ==
  \/ \E task \in Tasks, d \in {0, 1} : Construct(task, d)
  \/ Elapse
  \/ Tick
  \/ \E step \in Steps : UpdateStep(step)
  \/ \E output \in {Null, Str(<<"x">>)}, todos \in {Undef, Arr(<<>>)} :
       UpdateToolOutput(output, todos)
  \/ Success
  \/ Error
  \/ Stop

SpecSpinner == Init /\ [][NextSpinner]_vars

\* C24: step history of ProgressSpinner: after construction and any updateStep
\* calls, stepHistory has one entry per call plus the first entry Thinking (a
\* repeated step name adds an entry), the last entry has the name currentStep
\* and no endTime, and every earlier entry has an endTime equal to the
\* startTime of the entry after it.
C24_StepHistory ==
  spinner # None =>
    LET h == spinner[1].stepHistory
        n == Len(h)
    IN /\ n = spinner[1].updates + 1
       /\ h[1].name = "Thinking"
       /\ h[n].name = spinner[1].currentStep
       /\ h[n].endTime = None
       /\ \A i \in 1..(n - 1) : h[i].endTime = Some(h[i + 1].startTime)

\* C24 witness: three updateStep calls at different times, two of them in a
\* row with the same name, gave four entries
C24_Witness ==
  /\ spinner # None
  /\ Len(spinner[1].stepHistory) = 4
  /\ spinner[1].stepHistory[2].name = "Testing"
  /\ spinner[1].stepHistory[3].name = "Testing"
  /\ spinner[1].stepHistory[2].startTime < spinner[1].stepHistory[3].startTime
  /\ spinner[1].stepHistory[3].startTime < spinner[1].stepHistory[4].startTime

\* C25: timer of ProgressSpinner: the periodic tick is armed once, at
\* construction; after the first call of success, error or stop tickInterval
\* is null, no interval is armed and the tick does not fire again, whatever
\* calls of success, error, stop, updateStep and updateToolOutput follow.
C25_TimerLifecycle ==
  [][ /\ spinner' # None => spinner'[1].armed = 1
      /\ (spinner' # None /\ spinner'[1].ended) =>
           spinner'[1].tickInterval = None /\ spinner'[1].timers = {}
      /\ (spinner # None /\ spinner[1].ended) => spinner'[1].ticks = spinner[1].ticks ]_vars

\* C25 witness: the tick fired, then stop was called, then updateStep was
\* called
C25_Witness ==
  /\ spinner # None
  /\ spinner[1].ended
  /\ spinner[1].ticks >= 1
  /\ spinner[1].endedBy = "stop"
  /\ spinner[1].updates > spinner[1].endedAt

====
